---- MODULE Spec2Model ----
(***************************************************************************)
(* Industrial IoT synthetic data generators.                               *)
(*                                                                         *)
(*   "db"  variant: Industrial-IoT-Workshop/generate_iot_data.py           *)
(*   "csv" variant: Industrial-IoT-Workshop/generate_sample_data.py        *)
(*                                                                         *)
(* Numbers.  The generators compute in binary floating point.  The model   *)
(* computes in fixed point with Scale units per source unit (three decimal *)
(* digits: one digit more than the finest round(x, 2) of the source), so   *)
(* that a value and its rounded form are different numbers.  Products with *)
(* a decimal literal (0.3, 1.1, 1.05 ...) are integer products over a      *)
(* power of ten; comparisons against "upper * 1.1" are cross-multiplied    *)
(* and so exact.                                                           *)
(*                                                                         *)
(* Time.  A datetime is the number of minutes since Monday 00:00 of the    *)
(* week in which the run starts; a timedelta is a number of minutes.       *)
(*                                                                         *)
(* Random draws.  random.uniform(a, b), random.randint(a, b) and            *)
(* random.choice(seq) are taken at the quantiles u / UDiv, u in 0 .. UDiv, *)
(* of their range (both ends are results: at this resolution a + (b - a) * *)
(* random.random() reaches b).  A standard normal deviate is z / ZDiv with *)
(* |z| <= ZMax * ZDiv.  A test random.random() < p can come out either way *)
(* when 0 < p < 1.  Where one row takes several draws that no condition    *)
(* and no timestamp reads, they are taken at one common quantile; so are   *)
(* the two draws of one timedelta(days=..., hours=...).                    *)
(***************************************************************************)
EXTENDS Integers, Sequences, FiniteSets, TLC

\* -------------------------------------------------------------- fixed point
Scale == 10^3

\* ------------------------------------------------------------------ bounds
UDiv == 2           \* quantile resolution of one uniform draw
ZDiv == 2           \* resolution of one standard normal deviate
ZMax == 6           \* largest |deviate| drawn, in standard deviations
MaxCsvTicks == 2    \* ticks explored of the csv variant's three-day window
MaxFaults == 1      \* corrective trials of one run that come out true

MinutesPerDay == 24 * 60

At(day, hour, minute) == day * MinutesPerDay + hour * 60 + minute

\* datetime.weekday(): Monday is 0, Sunday is 6
Weekday(t) == (t \div MinutesPerDay) % 7
\* datetime.hour
Hour(t) == (t \div 60) % 24
\* timedelta.days of (t - origin), for t >= origin
Days(t, origin) == (t - origin) \div MinutesPerDay

\* the quantiles at which a uniform draw is taken
UniformDraws == 0 .. UDiv
\* random.uniform(a, b) == a + (b - a) * random.random()
Uniform(a, b, u) == a + ((b - a) * u) \div UDiv
\* random.randint(a, b): an integer of a .. b
RandInt(a, b, u) == a + ((b - a) * u) \div UDiv
\* random.choice(seq)
Choice(seq, u) == seq[1 + ((Len(seq) - 1) * u) \div UDiv]
\* the outcomes of random.random() < p, p in units of 1 / Scale
Bernoulli(p) == { b \in BOOLEAN : (b => p > 0) /\ (~b => p < Scale) }
\* the deviates behind random.gauss
NormalDraws == (0 - ZMax * ZDiv) .. (ZMax * ZDiv)
\* random.gauss(mu, sigma) == mu + z * sigma
Gauss(mu, sigma, z) == mu + (sigma * z) \div ZDiv

\* round(v, ndigits): to the nearest multiple of 10^-ndigits, an exact tie
\* going to the even multiple
Round(v, ndigits) ==
    LET q == Scale \div (10^ndigits)
        lo == (v \div q) * q
        r == v - lo
    IN  IF 2 * r < q THEN lo
        ELSE IF 2 * r > q THEN lo + q
        ELSE IF (lo \div q) % 2 = 0 THEN lo ELSE lo + q

Max(a, b) == IF a >= b THEN a ELSE b
Min(a, b) == IF a <= b THEN a ELSE b

\* ---------------------------------------------------------------- catalog
EQUIPMENT_IDS ==
    << "MOTOR_001", "MOTOR_002", "PUMP_001", "PUMP_002", "CONV_001",
       "CONV_002", "ROBOT_001", "ROBOT_002", "COMP_001", "HVAC_001" >>

\* Python's None: the empty tuple; a present optional value v is <<v>> where
\* the two must be told apart in one field
None == << >>

Range(lo, hi) == << lo * Scale, hi * Scale >>

\* generate_iot_data.py: every profile carries a 'pressure' key, None or a range
EQUIPMENT_CONFIG ==
    [ MOTOR_001 |-> [line |-> "Line 1", temp_range |-> Range(45, 75),
                     vib_range |-> Range(2, 12), pressure |-> None],
      MOTOR_002 |-> [line |-> "Line 1", temp_range |-> Range(45, 75),
                     vib_range |-> Range(2, 12), pressure |-> None],
      PUMP_001  |-> [line |-> "Line 1", temp_range |-> Range(40, 65),
                     vib_range |-> Range(5, 18), pressure |-> Range(180, 240)],
      PUMP_002  |-> [line |-> "Line 2", temp_range |-> Range(40, 65),
                     vib_range |-> Range(5, 18), pressure |-> Range(180, 240)],
      CONV_001  |-> [line |-> "Line 1", temp_range |-> Range(25, 55),
                     vib_range |-> Range(1, 8), pressure |-> None],
      CONV_002  |-> [line |-> "Line 2", temp_range |-> Range(25, 55),
                     vib_range |-> Range(1, 8), pressure |-> None],
      ROBOT_001 |-> [line |-> "Line 1", temp_range |-> Range(35, 60),
                     vib_range |-> Range(1, 6), pressure |-> None],
      ROBOT_002 |-> [line |-> "Line 2", temp_range |-> Range(35, 60),
                     vib_range |-> Range(1, 6), pressure |-> None],
      COMP_001  |-> [line |-> "Utility", temp_range |-> Range(60, 85),
                     vib_range |-> Range(8, 22),
                     pressure |-> << 6 * Scale, (15 * Scale) \div 2 >>],
      HVAC_001  |-> [line |-> "Factory Floor", temp_range |-> Range(18, 24),
                     vib_range |-> Range(1, 4), pressure |-> None] ]

\* generate_sample_data.py: the 'pressure' key is present only for the pumps
\* and the compressor
CSV_EQUIPMENT_CONFIG ==
    [ MOTOR_001 |-> [line |-> "Line 1", temp_range |-> Range(45, 75),
                     vib_range |-> Range(2, 12)],
      MOTOR_002 |-> [line |-> "Line 1", temp_range |-> Range(45, 75),
                     vib_range |-> Range(2, 12)],
      PUMP_001  |-> [line |-> "Line 1", temp_range |-> Range(40, 65),
                     vib_range |-> Range(5, 18), pressure |-> Range(180, 240)],
      PUMP_002  |-> [line |-> "Line 2", temp_range |-> Range(40, 65),
                     vib_range |-> Range(5, 18), pressure |-> Range(180, 240)],
      CONV_001  |-> [line |-> "Line 1", temp_range |-> Range(25, 55),
                     vib_range |-> Range(1, 8)],
      CONV_002  |-> [line |-> "Line 2", temp_range |-> Range(25, 55),
                     vib_range |-> Range(1, 8)],
      ROBOT_001 |-> [line |-> "Line 1", temp_range |-> Range(35, 60),
                     vib_range |-> Range(1, 6)],
      ROBOT_002 |-> [line |-> "Line 2", temp_range |-> Range(35, 60),
                     vib_range |-> Range(1, 6)],
      COMP_001  |-> [line |-> "Utility", temp_range |-> Range(60, 85),
                     vib_range |-> Range(8, 22),
                     pressure |-> << 6 * Scale, (15 * Scale) \div 2 >>],
      HVAC_001  |-> [line |-> "Factory Floor", temp_range |-> Range(18, 24),
                     vib_range |-> Range(1, 4)] ]

\* np.mean(range) and (range[0] + range[1]) / 2
Mean(range) == (range[1] + range[2]) \div 2
Width(range) == range[2] - range[1]

\* 1000 * sin(2 * pi * hour / 24), to the nearest unit
SinTable ==
    << 0, 259, 500, 707, 866, 966, 1000, 966, 866, 707, 500, 259,
       0, -259, -500, -707, -866, -966, -1000, -966, -866, -707, -500, -259 >>

\* daily_cycle = 3 * sin(2 * pi * hour / 24)
DailyCycle(hour) == (3 * Scale * SinTable[hour + 1]) \div 1000

\* mutant of OperatingFactor: the night factor from 22:00
OperatingFactorFrom22(t) ==
    IF Weekday(t) >= 5 THEN 3
    ELSE IF Hour(t) < 6 \/ Hour(t) >= 22 THEN 6
    ELSE 10

\* operating_factor in tenths: 0.3 on Saturday and Sunday, else 0.6 before
\* 06:00 and from 23:00, else 1.0
OperatingFactor(t) ==
    IF Weekday(t) >= 5 THEN 3
    ELSE IF Hour(t) < 6 \/ Hour(t) > 22 THEN 6
    ELSE 10

\* ------------------------------------------------------------------ state
VARIABLES
    variant,           \* "db": generate_iot_data.py, "csv": generate_sample_data.py,
                       \* "simple": generate_simple_data.py
    pc,                \* the statement the running generator is at
    start_time,        \* start of the window
    end_time,          \* end of the window
    interval_minutes,  \* tick spacing
    current_time,      \* the loop cursor
    appended,          \* the rows appended to data (or written with
                       \* writer.writerow) by the block just run; data is
                       \* their concatenation over the run
    n_rows,            \* len(data) / record_count
    eq,                \* position of the equipment in hand in the sequence
                       \* the for loop runs over
    line,              \* position of line_id in LINES
    tick_times,        \* the values current_time took in the loop body
    \* generate_sensor_data
    temp_drift,        \* equipment_states[id]['temp_drift'], units per day
    vib_drift,         \* equipment_states[id]['vib_drift'], units per day
    raw_value,         \* the unrounded local (temp_value, vib_value,
                       \* pressure_value, humidity_value) behind the latest row
    eq_rows,           \* rows appended for the equipment in hand at this tick
    \* generate_production_metrics
    base_efficiency,
    base_throughput,
    \* generate_quality_control_data
    next_test,
    batch_counter,
    batch_ids,         \* << time, batch_id >> of every record of data, in order
    \* generate_maintenance_events
    maint_time,
    day,               \* the day in hand of range(days_passed, days_passed + 30)
    week,              \* the week in hand of range(4)
    scheduled,         \* times of the preventive events appended for the
                       \* equipment in hand, in order
    faults,             \* the times random.random() < 0.02 came out true
    \* insert_data_batch
    table_name,
    insert_i,          \* i: the start of the batch in hand, of range(0,
                       \* total_records, batch_size)
    batch,             \* data[i:i + batch_size], as << i, end >>
    staged,            \* the batches executed in the open transaction
    committed,         \* << table_name, batch >> of every committed batch
    success,            \* what insert_data_batch returned: "True", "False",
                       \* or "unset" before it returns
    \* main
    conn,              \* "none", "open" after psycopg2.connect, "closed"
    generated,         \* the tables whose generator has been called, in order
    closes,            \* the calls of conn.close()
    outcome,            \* how main ended: "sys.exit(1)", "return", "complete",
                       \* "error"; "" while it runs
    \* generate_simple_data.py: generate_sensor_data
    operating_factor,  \* in tenths
    temperature,
    vibration,
    status_,           \* status
    spike,              \* what the spike path added to temperature
    \* the status classifiers, applied to rising values
    classifier,        \* "temperature", "vibration", "pressure", "humidity"
                       \* or the argument of determine_status that rises
    range_max,         \* the upper bound of the range the value is drawn in
    other_value,       \* the other argument of determine_status
    probe,             \* the value classified
    probe_status       \* its status

commonVars == << variant, pc, start_time, end_time, interval_minutes,
                 current_time, appended, n_rows, eq, line, tick_times >>
sensorVars == << temp_drift, vib_drift, raw_value, eq_rows >>
prodVars == << base_efficiency, base_throughput >>
qcVars == << next_test, batch_counter, batch_ids >>
maintVars == << maint_time, day, week, scheduled, faults >>
insertVars == << table_name, insert_i, batch, staged, committed, success >>
mainVars == << conn, generated, closes, outcome >>
simpleVars == << operating_factor, temperature, vibration, status_, spike >>
classVars == << classifier, range_max, other_value, probe, probe_status >>
vars == << commonVars, sensorVars, prodVars, qcVars, maintVars, insertVars, mainVars, simpleVars, classVars >>

\* what the sensor generator leaves alone
notSensor == << line, prodVars, qcVars, maintVars,
                 insertVars,
                 mainVars,
                 simpleVars,
                 classVars >>
\* what the production generator leaves alone
notProd == << sensorVars, qcVars, maintVars,
               insertVars,
               mainVars,
               simpleVars,
               classVars >>
\* what the quality-control generator leaves alone
notQc == << interval_minutes, eq, sensorVars, prodVars, maintVars,
             insertVars,
             mainVars,
             simpleVars,
             classVars >>
\* what the maintenance generator leaves alone
notMaint == << variant, start_time, end_time, interval_minutes, line,
               tick_times, sensorVars, prodVars, qcVars,
                insertVars,
                mainVars,
                simpleVars,
                classVars >>

\* the sensor generator is not running
SensorIdle ==
    /\ temp_drift = << >>
    /\ vib_drift = << >>
    /\ raw_value = 0
    /\ eq_rows = 0

\* the production generator is not running
ProdIdle ==
    /\ base_efficiency = 0
    /\ base_throughput = 0

\* the quality-control generator is not running
QcIdle ==
    /\ next_test = 0
    /\ batch_counter = 0
    /\ batch_ids = << >>

\* the maintenance generator is not running
MaintIdle ==
    /\ maint_time = 0
    /\ day = 0
    /\ week = 0
    /\ scheduled = << >>
    /\ faults = 0

\* insert_data_batch is not running
InsertIdle ==
    /\ table_name = ""
    /\ insert_i = 0
    /\ batch = << >>
    /\ staged = << >>
    /\ committed = << >>
    /\ success = "unset"

\* main is not running
MainIdle ==
    /\ conn = "none"
    /\ generated = << >>
    /\ closes = 0
    /\ outcome = ""

\* the generator of generate_simple_data.py is not running
SimpleIdle ==
    /\ operating_factor = 0
    /\ temperature = 0
    /\ vibration = 0
    /\ status_ = ""
    /\ spike = 0

\* no classifier is being applied
ClassIdle ==
    /\ classifier = ""
    /\ range_max = 0
    /\ other_value = 0
    /\ probe = 0
    /\ probe_status = ""

NumEquipment == Len(EQUIPMENT_IDS)
EquipmentSet == { EQUIPMENT_IDS[i] : i \in 1 .. NumEquipment }

\* ----------------------------------------------------- sensor signal model
\* mutant of OverStatus: 'warning' is never assigned
OverStatusNoWarning(value, upper, num, den) ==
    IF value * den > upper * num THEN "critical" ELSE "normal"

\* status of a reading: 'normal', overwritten by 'warning' above the upper
\* bound, overwritten by 'critical' above upper * (num / 10^den)
OverStatus(value, upper, num, den) ==
    LET s0 == "normal"
        s1 == IF value > upper THEN "warning" ELSE s0
    IN  IF value * den > upper * num THEN "critical" ELSE s1

\* mutant of TempStatus: the vibration ratio used for temperature
TempStatusVibRatio(value, config) ==
    OverStatus(value, config.temp_range[2], 12, 10)

\* temp_value > temp_range[1] / temp_range[1] * 1.1
TempStatus(value, config) == OverStatus(value, config.temp_range[2], 11, 10)
\* vib_value > vib_range[1] / vib_range[1] * 1.2
VibStatus(value, config) == OverStatus(value, config.vib_range[2], 12, 10)
\* mutant of PressureStatus: the critical test left out
PressureStatusNoCritical(value, config) ==
    IF value > config.pressure[2] THEN "warning" ELSE "normal"

\* pressure_value > pressure[1] / pressure[1] * 1.05   (generate_iot_data.py)
PressureStatus(value, config) == OverStatus(value, config.pressure[2], 105, 100)
\* generate_sample_data.py tests the upper bound only
CsvPressureStatus(value, config) ==
    IF value > config.pressure[2] THEN "warning" ELSE "normal"
\* humidity_value > 70 or humidity_value < 40
HumidityStatus(value) ==
    IF value > 70 * Scale \/ value < 40 * Scale THEN "warning" ELSE "normal"

\* generate_iot_data.py: base + daily cycle + gauss(0, 0.3 * width) + drift
TempValue(config, t, origin, drift, z) ==
    Mean(config.temp_range) + DailyCycle(Hour(t))
      + Gauss(0, (Width(config.temp_range) * 3) \div 10, z)
      + drift * Days(t, origin)

\* generate_iot_data.py: max(0, base * factor + gauss(0, 0.4 * width) + drift)
VibValue(config, t, origin, drift, z) ==
    Max(0, (Mean(config.vib_range) * OperatingFactor(t)) \div 10
             + Gauss(0, (Width(config.vib_range) * 4) \div 10, z)
             + drift * Days(t, origin))

\* generate_iot_data.py: base * factor + gauss(0, 0.2 * width)
PressureValue(config, t, z) ==
    (Mean(config.pressure) * OperatingFactor(t)) \div 10
      + Gauss(0, (Width(config.pressure) * 2) \div 10, z)

\* generate_sample_data.py: base + daily cycle + uniform(-v, v), v = 0.3 * width
CsvTempValue(config, t, u) ==
    LET v == (Width(config.temp_range) * 3) \div 10
    IN  Mean(config.temp_range) + DailyCycle(Hour(t)) + Uniform(0 - v, v, u)

\* generate_sample_data.py: max(0, base * factor + uniform(-v, v)), v = 0.4 * width
CsvVibValue(config, t, u) ==
    LET v == (Width(config.vib_range) * 4) \div 10
    IN  Max(0, (Mean(config.vib_range) * OperatingFactor(t)) \div 10
                 + Uniform(0 - v, v, u))

\* generate_sample_data.py: base * factor + uniform(-v, v), v = 0.2 * width
CsvPressureValue(config, t, u) ==
    LET v == (Width(config.pressure) * 2) \div 10
    IN  (Mean(config.pressure) * OperatingFactor(t)) \div 10 + Uniform(0 - v, v, u)

\* mutant of InWindow: the end of the window excluded
InWindowExclusive(t, end) == t < end

\* while current_time <= end_time
InWindow(t, end) == t <= end

\* mutant of HumidityApplies: every equipment off the production lines
HumidityAppliesOffLine(id) ==
    EQUIPMENT_CONFIG[id].line \in {"Utility", "Factory Floor"}

\* if equipment_id == 'HVAC_001'
HumidityApplies(id) == id = "HVAC_001"

\* the tuple appended to data / the list given to writer.writerow
SensorRow(t, id, kind, value, unit, status) ==
    [time |-> t, equipment_id |-> id, sensor_type |-> kind, value |-> value,
     unit |-> unit, status |-> status]

\* one row leaves the block in hand
Emit(row, raw) ==
    /\ appended' = << row >>
    /\ raw_value' = raw
    /\ n_rows' = n_rows + 1
    /\ eq_rows' = eq_rows + 1

\* the block in hand appends nothing
Skip ==
    /\ appended' = << >>
    /\ raw_value' = 0
    /\ UNCHANGED << n_rows, eq_rows >>

\* ---------------------------------------- generate_sensor_data (db variant)
\* while current_time <= end_time: ... ; return data
SensorLoop ==
    /\ variant = "db" /\ pc = "loop"
    /\ IF InWindow(current_time, end_time)
       THEN /\ pc' = "for"
            /\ eq' = 0
            /\ tick_times' = Append(tick_times, current_time)
       ELSE /\ pc' = "done"
            /\ UNCHANGED << eq, tick_times >>
    /\ Skip
    /\ UNCHANGED << variant, start_time, end_time, interval_minutes,
                    current_time, temp_drift, vib_drift, notSensor >>

\* for equipment_id in EQUIPMENT_IDS: ... ; current_time += interval
SensorFor ==
    /\ variant = "db" /\ pc = "for"
    /\ IF eq < NumEquipment
       THEN /\ eq' = eq + 1
            /\ pc' = "temperature"
            /\ eq_rows' = 0
            /\ UNCHANGED current_time
       ELSE /\ current_time' = current_time + interval_minutes
            /\ pc' = "loop"
            /\ UNCHANGED << eq, eq_rows >>
    /\ appended' = << >>
    /\ raw_value' = 0
    /\ UNCHANGED << variant, start_time, end_time, interval_minutes,
                    n_rows, temp_drift, vib_drift, tick_times, notSensor >>

SensorTemperature ==
    /\ variant = "db" /\ pc = "temperature"
    /\ \E z \in NormalDraws :
         LET id == EQUIPMENT_IDS[eq]
             config == EQUIPMENT_CONFIG[id]
             temp_value == TempValue(config, current_time, start_time,
                                     temp_drift[id], z)
             temp_status == TempStatus(temp_value, config)
         IN  Emit(SensorRow(current_time, id, "temperature",
                            Round(temp_value, 1), "celsius", temp_status),
                  temp_value)
    /\ pc' = "vibration"
    /\ UNCHANGED << variant, start_time, end_time, interval_minutes,
                    current_time, eq, temp_drift, vib_drift, tick_times,
                    notSensor >>

SensorVibration ==
    /\ variant = "db" /\ pc = "vibration"
    /\ \E z \in NormalDraws :
         LET id == EQUIPMENT_IDS[eq]
             config == EQUIPMENT_CONFIG[id]
             vib_value == VibValue(config, current_time, start_time,
                                   vib_drift[id], z)
             vib_status == VibStatus(vib_value, config)
         IN  Emit(SensorRow(current_time, id, "vibration",
                            Round(vib_value, 2), "hz", vib_status),
                  vib_value)
    /\ pc' = "pressure"
    /\ UNCHANGED << variant, start_time, end_time, interval_minutes,
                    current_time, eq, temp_drift, vib_drift, tick_times,
                    notSensor >>

\* if config['pressure'] is not None: ...
SensorPressure ==
    /\ variant = "db" /\ pc = "pressure"
    /\ LET id == EQUIPMENT_IDS[eq]
           config == EQUIPMENT_CONFIG[id]
       IN  \/ /\ config.pressure # None
              /\ \E z \in NormalDraws :
                   LET pressure_value == PressureValue(config, current_time, z)
                       pressure_status == PressureStatus(pressure_value, config)
                   IN  Emit(SensorRow(current_time, id, "pressure",
                                      Round(pressure_value, 1), "bar",
                                      pressure_status),
                            pressure_value)
           \/ /\ config.pressure = None
              /\ Skip
    /\ pc' = "humidity"
    /\ UNCHANGED << variant, start_time, end_time, interval_minutes,
                    current_time, eq, temp_drift, vib_drift, tick_times,
                    notSensor >>

\* if equipment_id == 'HVAC_001': ...
SensorHumidity ==
    /\ variant = "db" /\ pc = "humidity"
    /\ LET id == EQUIPMENT_IDS[eq]
       IN  \/ /\ HumidityApplies(id)
              /\ \E u \in UniformDraws :
                   LET humidity_value == Uniform(45 * Scale, 65 * Scale, u)
                   IN  Emit(SensorRow(current_time, id, "humidity",
                                      Round(humidity_value, 1), "percent",
                                      HumidityStatus(humidity_value)),
                            humidity_value)
           \/ /\ ~HumidityApplies(id)
              /\ Skip
    /\ pc' = "for"
    /\ UNCHANGED << variant, start_time, end_time, interval_minutes,
                    current_time, eq, temp_drift, vib_drift, tick_times,
                    notSensor >>

\* ------------------------------------ generate_sensor_data_csv (csv variant)
\* while current_time <= end_time: ...   (the first MaxCsvTicks ticks)
CsvSensorLoop ==
    /\ variant = "csv" /\ pc = "loop"
    /\ Len(tick_times) < MaxCsvTicks
    /\ IF InWindow(current_time, end_time)
       THEN /\ pc' = "for"
            /\ eq' = 0
            /\ tick_times' = Append(tick_times, current_time)
       ELSE /\ pc' = "done"
            /\ UNCHANGED << eq, tick_times >>
    /\ Skip
    /\ UNCHANGED << variant, start_time, end_time, interval_minutes,
                    current_time, temp_drift, vib_drift, notSensor >>

\* for equipment_id, config in EQUIPMENT_CONFIG.items(): ... ;
\* current_time += datetime.timedelta(minutes=5)
CsvSensorFor ==
    /\ variant = "csv" /\ pc = "for"
    /\ IF eq < NumEquipment
       THEN /\ eq' = eq + 1
            /\ pc' = "temperature"
            /\ eq_rows' = 0
            /\ UNCHANGED current_time
       ELSE /\ current_time' = current_time + interval_minutes
            /\ pc' = "loop"
            /\ UNCHANGED << eq, eq_rows >>
    /\ appended' = << >>
    /\ raw_value' = 0
    /\ UNCHANGED << variant, start_time, end_time, interval_minutes,
                    n_rows, temp_drift, vib_drift, tick_times, notSensor >>

CsvSensorTemperature ==
    /\ variant = "csv" /\ pc = "temperature"
    /\ \E u \in UniformDraws :
         LET id == EQUIPMENT_IDS[eq]
             config == CSV_EQUIPMENT_CONFIG[id]
             temp_value == CsvTempValue(config, current_time, u)
             temp_status == TempStatus(temp_value, config)
         IN  Emit(SensorRow(current_time, id, "temperature",
                            Round(temp_value, 1), "celsius", temp_status),
                  temp_value)
    /\ pc' = "vibration"
    /\ UNCHANGED << variant, start_time, end_time, interval_minutes,
                    current_time, eq, temp_drift, vib_drift, tick_times,
                    notSensor >>

CsvSensorVibration ==
    /\ variant = "csv" /\ pc = "vibration"
    /\ \E u \in UniformDraws :
         LET id == EQUIPMENT_IDS[eq]
             config == CSV_EQUIPMENT_CONFIG[id]
             vib_value == CsvVibValue(config, current_time, u)
             vib_status == VibStatus(vib_value, config)
         IN  Emit(SensorRow(current_time, id, "vibration",
                            Round(vib_value, 2), "hz", vib_status),
                  vib_value)
    /\ pc' = "pressure"
    /\ UNCHANGED << variant, start_time, end_time, interval_minutes,
                    current_time, eq, temp_drift, vib_drift, tick_times,
                    notSensor >>

\* if 'pressure' in config: ...
CsvSensorPressure ==
    /\ variant = "csv" /\ pc = "pressure"
    /\ LET id == EQUIPMENT_IDS[eq]
           config == CSV_EQUIPMENT_CONFIG[id]
       IN  \/ /\ "pressure" \in DOMAIN config
              /\ \E u \in UniformDraws :
                   LET pressure_value == CsvPressureValue(config, current_time, u)
                       pressure_status == CsvPressureStatus(pressure_value, config)
                   IN  Emit(SensorRow(current_time, id, "pressure",
                                      Round(pressure_value, 1), "bar",
                                      pressure_status),
                            pressure_value)
           \/ /\ "pressure" \notin DOMAIN config
              /\ Skip
    /\ pc' = "for"
    /\ UNCHANGED << variant, start_time, end_time, interval_minutes,
                    current_time, eq, temp_drift, vib_drift, tick_times,
                    notSensor >>

\* ------------------------------------------------------ sensor: the runs
Friday == 4
Saturday == 5
Sunday == 6
Monday == 0
Tuesday == 1

\* start_time, window, interval_minutes given to generate_sensor_data
SensorCalls ==
    { << At(Friday, 23, 50), 2 * MinutesPerDay, MinutesPerDay >>,
      << At(Sunday, 23, 55), 5, 5 >>,
      << At(Monday, 5, 55), 5, 5 >>,
      << At(Monday, 22, 55), 5, 5 >>,
      << At(Tuesday, 9, 0), 120, 60 >> }

\* datetime.now() - timedelta(days=3), for generate_sensor_data_csv
CsvStarts ==
    { At(Friday, 23, 55), At(Sunday, 23, 55), At(Monday, 5, 55),
      At(Monday, 22, 55) }

\* equipment_states: each rate is drawn once, before the loop, and only read
\* afterwards.  A temperature row depends on the temperature rate of its own
\* equipment alone, a vibration row on the vibration rate of its own
\* equipment alone; the runs enumerated are those in which every one of the
\* twenty draws came out the same.
InitStates ==
    \E u \in UniformDraws :
      /\ temp_drift = [id \in EquipmentSet |->
                         Uniform(0 - Scale \div 10, Scale \div 10, u)]
      /\ vib_drift = [id \in EquipmentSet |->
                        Uniform(0 - Scale \div 20, Scale \div 20, u)]

InitSensorDb(call) ==
    /\ variant = "db"
    /\ start_time = call[1]
    /\ end_time = call[1] + call[2]
    /\ interval_minutes = call[3]
    /\ InitStates

\* generate_sensor_data_csv: the last three days, one tick every 5 minutes;
\* no drift
InitSensorCsv ==
    /\ variant = "csv"
    /\ start_time \in CsvStarts
    /\ end_time = start_time + 3 * MinutesPerDay
    /\ interval_minutes = 5
    /\ temp_drift = [id \in EquipmentSet |-> 0]
    /\ vib_drift = [id \in EquipmentSet |-> 0]

\* data = [], current_time = start_time
InitSensorLocals ==
    /\ pc = "loop"
    /\ current_time = start_time
    /\ appended = << >>
    /\ n_rows = 0
    /\ eq = 0
    /\ raw_value = 0
    /\ tick_times = << >>
    /\ eq_rows = 0
    /\ line = 0
    /\ ProdIdle
    /\ QcIdle
    /\ MaintIdle
    /\ InsertIdle
    /\ MainIdle
    /\ SimpleIdle
    /\ ClassIdle

InitSensor ==
    /\ \/ \E call \in SensorCalls : InitSensorDb(call)
       \/ InitSensorCsv
    /\ InitSensorLocals

NextSensorDb ==
    \/ SensorLoop
    \/ SensorFor
    \/ SensorTemperature
    \/ SensorVibration
    \/ SensorPressure
    \/ SensorHumidity

NextSensorCsv ==
    \/ CsvSensorLoop
    \/ CsvSensorFor
    \/ CsvSensorTemperature
    \/ CsvSensorVibration
    \/ CsvSensorPressure

NextSensor == NextSensorDb \/ NextSensorCsv

SpecSensor == InitSensor /\ [][NextSensor]_vars

\* generate_sensor_data(start, start + 24h, interval_minutes=60)
DayCall == << At(Monday, 0, 0), MinutesPerDay, 60 >>

InitSensorDay == InitSensorDb(DayCall) /\ InitSensorLocals

SpecSensorDay == InitSensorDay /\ [][NextSensorDb]_vars

\* ------------------------------------------------------- claims: sensors
Rows == { appended[i] : i \in DOMAIN appended }

\* the profile of the equipment a row is about
ConfigOf(row) == EQUIPMENT_CONFIG[row.equipment_id]

\* 'critical' iff v > upper * num/den, 'warning' iff upper < v <= upper * num/den,
\* 'normal' otherwise
Classified(status, v, upper, num, den) ==
    /\ (status = "critical") <=> (v * den > upper * num)
    /\ (status = "warning") <=> (v > upper /\ ~(v * den > upper * num))
    /\ (status = "normal") <=> ~(v > upper)

\* C1 as stated: in both generators the status of a temperature or vibration
\* row classifies the value carried by the row (the rounded value) against
\* upper and upper * 1.1 (temperature) or upper * 1.2 (vibration).
C1_RecordValueClassified ==
    \A row \in Rows :
      /\ row.sensor_type = "temperature" =>
           Classified(row.status, row.value, ConfigOf(row).temp_range[2], 11, 10)
      /\ row.sensor_type = "vibration" =>
           Classified(row.status, row.value, ConfigOf(row).vib_range[2], 12, 10)

\* C1 amended: in both generators the status of a temperature or vibration row
\* classifies the generated value before rounding against upper and
\* upper * 1.1 (temperature) or upper * 1.2 (vibration).
C1_GeneratedValueClassified ==
    \A row \in Rows :
      /\ row.sensor_type = "temperature" =>
           Classified(row.status, raw_value, ConfigOf(row).temp_range[2], 11, 10)
      /\ row.sensor_type = "vibration" =>
           Classified(row.status, raw_value, ConfigOf(row).vib_range[2], 12, 10)

\* C1 witness: a 'critical' temperature row has been appended and rounding
\* changed its value
C1_Witness ==
    \E row \in Rows :
      /\ row.sensor_type = "temperature"
      /\ row.status = "critical"
      /\ row.value # raw_value

C3_NonNegative ==
    \A row \in Rows :
      row.sensor_type \in {"vibration", "pressure"} => row.value >= 0

\* C4: a pressure row is about PUMP_001, PUMP_002 or COMP_001, the profiles
\* with a pressure range, and a humidity row is about HVAC_001.
C4_PressureAndHumidityOwners ==
    \A row \in Rows :
      /\ row.sensor_type = "pressure" =>
           /\ row.equipment_id \in {"PUMP_001", "PUMP_002", "COMP_001"}
           /\ ConfigOf(row).pressure # None
      /\ row.sensor_type = "humidity" => row.equipment_id = "HVAC_001"

\* C4 witness: the humidity block has appended a row for HVAC_001
C4_Witness ==
    /\ pc = "for" /\ variant = "db"
    /\ \E row \in Rows :
         row.sensor_type = "humidity" /\ row.equipment_id = "HVAC_001"

StrictlyIncreasing(seq) ==
    \A i \in 1 .. (Len(seq) - 1) : seq[i] < seq[i + 1]

EquallySpaced(seq, step) ==
    \A i \in 1 .. (Len(seq) - 1) : seq[i + 1] - seq[i] = step

\* rows one tick appends: two per equipment, one more for each profile with a
\* pressure range, one more for HVAC_001
RowsPerTick ==
    2 * NumEquipment
      + Cardinality({ id \in EquipmentSet : EQUIPMENT_CONFIG[id].pressure # None })
      + 1

LINES == << "Line 1", "Line 2" >>

\* [eq for eq, config in EQUIPMENT_CONFIG.items() if config['line'] == line_id]
LineEquipment(line_id) ==
    SelectSeq(EQUIPMENT_IDS, LAMBDA id : EQUIPMENT_CONFIG[id].line = line_id)

\* the uniform ranges of base_efficiency and base_throughput: weekend, night
\* shift, day shift
ShiftRanges(t) ==
    IF Weekday(t) >= 5
    THEN [efficiency |-> Range(30, 50), throughput |-> Range(10, 30)]
    ELSE IF Hour(t) < 6 \/ Hour(t) > 22
    THEN [efficiency |-> Range(60, 80), throughput |-> Range(40, 70)]
    ELSE [efficiency |-> Range(80, 95), throughput |-> Range(70, 120)]

\* cycle_time = random.uniform(35, 55) * (100 / max(base_efficiency, 50))
CycleTime(base_eff, u) ==
    (Uniform(35 * Scale, 55 * Scale, u)
       * ((100 * Scale * Scale) \div Max(base_eff, 50 * Scale))) \div Scale

\* throughput = base_throughput * random.uniform(0.8, 1.2)
Throughput(base_thr, u) ==
    (base_thr * Uniform((8 * Scale) \div 10, (12 * Scale) \div 10, u)) \div Scale

\* mutant of Clamp: the upper limit left out
ClampFloorOnly(x) == Max(0, x)

\* max(0, min(100, efficiency))
Clamp(x) == Max(0, Min(100 * Scale, x))

\* efficiency = clamp(base_efficiency * random.uniform(0.9, 1.1))
Efficiency(base_eff, u) ==
    Clamp((base_eff * Uniform((9 * Scale) \div 10, (11 * Scale) \div 10, u))
            \div Scale)

\* energy_base + (throughput / 100) * 5 + random.uniform(-1, 1)
EnergyConsumption(line_id, throughput, u) ==
    (IF line_id = "Line 1" THEN 8 * Scale ELSE (15 * Scale) \div 2)
      + (throughput * 5) \div 100 + Uniform(0 - Scale, Scale, u)

\* downtime_prob = (100 - efficiency) / 100 * 0.3, in units of 1 / Scale
DowntimeProb(efficiency) == ((100 * Scale - efficiency) * 3) \div (100 * 10)

\* generate_sample_data.py: random.uniform(0, 15) * downtime_prob
CsvDowntime(efficiency, u) ==
    (Uniform(0, 15 * Scale, u) * DowntimeProb(efficiency)) \div Scale

\* defect_rate = max(0, (100 - efficiency) / 10 + random.uniform(-1, 1))
DefectRate(efficiency, u) ==
    Max(0, (100 * Scale - efficiency) \div 10 + Uniform(0 - Scale, Scale, u))

\* the tuple appended to data / the list given to writer.writerow
ProductionRow(t, line_id, id, cycle_time, throughput, efficiency, energy, downtime, defect_rate) ==
    [time |-> t, line_id |-> line_id, equipment_id |-> id,
     cycle_time |-> Round(cycle_time, 1), throughput |-> Round(throughput, 1),
     efficiency_score |-> Round(efficiency, 1),
     energy_consumption |-> Round(energy, 2),
     downtime_duration |-> Round(downtime, 1),
     defect_rate |-> Round(defect_rate, 2)]

\* while current_time <= end_time: ... ; return data
ProdLoop ==
    /\ variant = "db" /\ pc = "loop"
    /\ IF InWindow(current_time, end_time)
       THEN /\ pc' = "for_line"
            /\ line' = 0
            /\ tick_times' = Append(tick_times, current_time)
       ELSE /\ pc' = "done"
            /\ UNCHANGED << line, tick_times >>
    /\ appended' = << >>
    /\ UNCHANGED << variant, start_time, end_time, interval_minutes,
                    current_time, n_rows, eq, prodVars, notProd >>

\* generate_production_metrics_csv: while current_time <= end_time: ...
\* (the first MaxCsvTicks ticks)
CsvProdLoop ==
    /\ variant = "csv" /\ pc = "loop"
    /\ Len(tick_times) < MaxCsvTicks
    /\ IF InWindow(current_time, end_time)
       THEN /\ pc' = "for_line"
            /\ line' = 0
            /\ tick_times' = Append(tick_times, current_time)
       ELSE /\ pc' = "done"
            /\ UNCHANGED << line, tick_times >>
    /\ appended' = << >>
    /\ UNCHANGED << variant, start_time, end_time, interval_minutes,
                    current_time, n_rows, eq, prodVars, notProd >>

\* for line_id in LINES: the line's equipment and the shift's base draws;
\* after the last line, current_time += timedelta(minutes=interval)
ProdForLine ==
    /\ pc = "for_line"
    /\ IF line < Len(LINES)
       THEN /\ line' = line + 1
            /\ \E e \in UniformDraws, t \in UniformDraws :
                 LET r == ShiftRanges(current_time)
                 IN  /\ base_efficiency' =
                          Uniform(r.efficiency[1], r.efficiency[2], e)
                     /\ base_throughput' =
                          Uniform(r.throughput[1], r.throughput[2], t)
            /\ eq' = 0
            /\ pc' = "for_equipment"
            /\ UNCHANGED current_time
       ELSE /\ current_time' = current_time + interval_minutes
            /\ pc' = "loop"
            /\ UNCHANGED << line, eq, prodVars >>
    /\ appended' = << >>
    /\ UNCHANGED << variant, start_time, end_time, interval_minutes, n_rows,
                    tick_times, notProd >>

\* for equipment_id in line_equipment
ProdForEquipment ==
    /\ pc = "for_equipment"
    /\ IF eq < Len(LineEquipment(LINES[line]))
       THEN eq' = eq + 1 /\ pc' = "equipment"
       ELSE pc' = "for_line" /\ UNCHANGED eq
    /\ appended' = << >>
    /\ UNCHANGED << variant, start_time, end_time, interval_minutes,
                    current_time, n_rows, line, tick_times, prodVars, notProd >>

\* generate_production_metrics: one equipment's record.  random.exponential
\* is not an attribute of the random module: evaluating it raises
\* AttributeError, which leaves the function.
ProdEquipment ==
    /\ variant = "db" /\ pc = "equipment"
    /\ \E a \in UniformDraws, j \in UniformDraws, d \in UniformDraws :
         LET line_id == LINES[line]
             id == LineEquipment(line_id)[eq]
             cycle_time == CycleTime(base_efficiency, a)
             throughput == Throughput(base_throughput, a)
             efficiency == Efficiency(base_efficiency, j)
             energy == EnergyConsumption(line_id, throughput, a)
             downtime_prob == DowntimeProb(efficiency)
         IN  \/ /\ FALSE \in Bernoulli(downtime_prob)
                /\ appended' = << ProductionRow(current_time, line_id, id,
                                   cycle_time, throughput, efficiency, energy,
                                   0, DefectRate(efficiency, d)) >>
                /\ n_rows' = n_rows + 1
                /\ pc' = "for_equipment"
             \/ /\ TRUE \in Bernoulli(downtime_prob)
                /\ appended' = << >>
                /\ pc' = "raised"
                /\ UNCHANGED n_rows
    /\ UNCHANGED << variant, start_time, end_time, interval_minutes,
                    current_time, eq, line, tick_times, prodVars, notProd >>

\* generate_production_metrics_csv: one equipment's record
CsvProdEquipment ==
    /\ variant = "csv" /\ pc = "equipment"
    /\ \E a \in UniformDraws, j \in UniformDraws, d \in UniformDraws :
         LET line_id == LINES[line]
             id == LineEquipment(line_id)[eq]
             cycle_time == CycleTime(base_efficiency, a)
             throughput == Throughput(base_throughput, a)
             efficiency == Efficiency(base_efficiency, j)
             energy == EnergyConsumption(line_id, throughput, a)
             downtime_prob == DowntimeProb(efficiency)
         IN  \E hit \in Bernoulli(downtime_prob), m \in UniformDraws :
               LET downtime == IF hit THEN CsvDowntime(efficiency, m) ELSE 0
               IN  appended' = << ProductionRow(current_time, line_id, id,
                                    cycle_time, throughput, efficiency, energy,
                                    downtime, DefectRate(efficiency, d)) >>
    /\ n_rows' = n_rows + 1
    /\ pc' = "for_equipment"
    /\ UNCHANGED << variant, start_time, end_time, interval_minutes,
                    current_time, eq, line, tick_times, prodVars, notProd >>

\* start_time, window, interval_minutes given to generate_production_metrics
ProductionCalls == { << At(Friday, 22, 30), 120, 60 >> }

\* datetime.now() - timedelta(days=3), for generate_production_metrics_csv
CsvProductionStarts == { At(Friday, 22, 45), At(Friday, 23, 45) }

InitProduction ==
    /\ \/ /\ variant = "db"
          /\ \E call \in ProductionCalls :
               /\ start_time = call[1]
               /\ end_time = call[1] + call[2]
               /\ interval_minutes = call[3]
       \/ /\ variant = "csv"
          /\ start_time \in CsvProductionStarts
          /\ end_time = start_time + 3 * MinutesPerDay
          /\ interval_minutes = 15
    /\ pc = "loop"
    /\ current_time = start_time
    /\ appended = << >>
    /\ n_rows = 0
    /\ eq = 0
    /\ line = 0
    /\ tick_times = << >>
    /\ base_efficiency = 0
    /\ base_throughput = 0
    /\ SensorIdle
    /\ QcIdle
    /\ MaintIdle
    /\ InsertIdle
    /\ MainIdle
    /\ SimpleIdle
    /\ ClassIdle

NextProduction ==
    \/ ProdLoop
    \/ CsvProdLoop
    \/ ProdForLine
    \/ ProdForEquipment
    \/ ProdEquipment
    \/ CsvProdEquipment

SpecProduction == InitProduction /\ [][NextProduction]_vars

\* ---------------------------------------------------- claims: production
\* C5: every production row has 0 <= efficiency_score <= 100,
\* downtime_duration >= 0 and defect_rate >= 0, in both generators.
C5_ProductionRanges ==
    \A row \in Rows :
      /\ 0 <= row.efficiency_score
      /\ row.efficiency_score <= 100 * Scale
      /\ row.downtime_duration >= 0
      /\ row.defect_rate >= 0

\* C5 witness: a row whose efficiency was cut to 100 and whose defect rate was
\* raised to 0 has been appended
C5_Witness ==
    \E row \in Rows :
      /\ row.efficiency_score = 100 * Scale
      /\ row.defect_rate = 0
      /\ base_efficiency * 11 > 100 * Scale * 10

\* C20: generate_production_metrics never raises, and when it returns it has
\* appended 8 records for every tick (5 of Line 1, 3 of Line 2, none of
\* COMP_001 or HVAC_001), the ticks with a downtime included.
C20_CompletesEightPerTick ==
    variant = "db" =>
      /\ pc # "raised"
      /\ pc = "done" =>
           /\ n_rows = 8 * Len(tick_times)
           /\ \A k \in DOMAIN LINES :
                \A j \in DOMAIN LineEquipment(LINES[k]) :
                  LineEquipment(LINES[k])[j] \notin { "COMP_001", "HVAC_001" }

\* ------------------------------------------------- quality-control model
PRODUCT_IDS == << "PROD_A001", "PROD_B002", "PROD_C003", "PROD_D004" >>
TEST_TYPES == << "dimensional", "visual", "functional", "electrical" >>
INSPECTOR_IDS == << "INSP_001", "INSP_002", "INSP_003", "INSP_004" >>

\* the results of a random.choice(seq) that a condition reads
Choices(seq) == { seq[i] : i \in DOMAIN seq }

RECURSIVE Decimal(_)
\* the decimal digits of n >= 0, most significant first
Decimal(n) == IF n < 10 THEN << n >> ELSE Append(Decimal(n \div 10), n % 10)

RECURSIVE ZeroPad(_, _)
\* format specification 0<width>d: zeros on the left up to width digits
ZeroPad(digits, width) ==
    IF Len(digits) >= width THEN digits
    ELSE ZeroPad(<< 0 >> \o digits, width)

\* f"BATCH_{batch_counter:06d}": the digits after the prefix "BATCH_"
BatchId(counter) == ZeroPad(Decimal(counter), 6)

\* mutant of NextBatch: the counter is left as it is
NextBatchSame(counter) == counter

\* batch_counter += 1
NextBatch(counter) == counter + 1

\* mutant of Measured: electrical tests take the branch without measurement
MeasuredDimensionalOnly(test_type) == test_type = "dimensional"

\* if test_type == 'dimensional': ... elif test_type == 'electrical': ...
Measured(test_type) == test_type \in { "dimensional", "electrical" }

\* tolerance_min, tolerance_max, the distance a passing measurement keeps
\* from them and the width of the band a failing measurement is drawn from
Tolerance(test_type) ==
    IF test_type = "dimensional"
    THEN [min |-> 10 * Scale, max |-> (21 * Scale) \div 2,
          margin |-> Scale \div 20, band |-> Scale \div 5]
    ELSE [min |-> 45 * Scale, max |-> 55 * Scale,
          margin |-> Scale, band |-> 5 * Scale]

\* the measurement of a dimensional or electrical test
Measurement(test_type, test_result, low, u) ==
    LET tol == Tolerance(test_type)
    IN  IF test_result = "pass"
        THEN Uniform(tol.min + tol.margin, tol.max - tol.margin, u)
        ELSE IF low
        THEN Uniform(tol.min - tol.band, tol.min, u)
        ELSE Uniform(tol.max, tol.max + tol.band, u)

\* a present value; None is the absent one
Some(v) == << v >>

\* the tuple appended to data
QualityRow(t, batch_id, line_id, product_id, test_type, test_result, measurement, inspector_id) ==
    [time |-> t, batch_id |-> batch_id, line_id |-> line_id,
     product_id |-> product_id, test_type |-> test_type,
     test_result |-> test_result,
     measurement_value |->
       IF Measured(test_type) THEN Some(measurement) ELSE None,
     tolerance_min |->
       IF Measured(test_type) THEN Some(Tolerance(test_type).min) ELSE None,
     tolerance_max |->
       IF Measured(test_type) THEN Some(Tolerance(test_type).max) ELSE None,
     inspector_id |-> inspector_id]

\* round(measurement_value, 2) if measurement_value else None
CsvWritten(measurement_value) ==
    IF measurement_value # None /\ measurement_value[1] # 0
    THEN Some(Round(measurement_value[1], 2))
    ELSE None

\* the list given to writer.writerow
CsvQualityRow(row) ==
    [row EXCEPT !.measurement_value = CsvWritten(row.measurement_value)]

\* mutant of QcLoop: `if next_test > end_time: break` left out
QcLoopNoBreak ==
    /\ variant = "db" /\ pc = "loop"
    /\ IF InWindow(current_time, end_time)
       THEN \E u \in UniformDraws :
              /\ pc' = "for_line"
              /\ next_test' = current_time + RandInt(30, 180, u)
              /\ line' = 0
              /\ tick_times' = Append(tick_times, current_time)
       ELSE /\ pc' = "done"
            /\ UNCHANGED << next_test, line, tick_times >>
    /\ appended' = << >>
    /\ UNCHANGED << variant, start_time, end_time, current_time, n_rows,
                    batch_counter, batch_ids, notQc >>

\* while current_time <= end_time: next_test = current_time +
\* timedelta(minutes=random.randint(30, 180)); if next_test > end_time: break
QcLoop ==
    /\ variant = "db" /\ pc = "loop"
    /\ IF InWindow(current_time, end_time)
       THEN \E u \in UniformDraws :
              LET t == current_time + RandInt(30, 180, u)
              IN  IF t > end_time
                  THEN /\ pc' = "done"
                       /\ UNCHANGED << next_test, line, tick_times >>
                  ELSE /\ pc' = "for_line"
                       /\ next_test' = t
                       /\ line' = 0
                       /\ tick_times' = Append(tick_times, current_time)
       ELSE /\ pc' = "done"
            /\ UNCHANGED << next_test, line, tick_times >>
    /\ appended' = << >>
    /\ UNCHANGED << variant, start_time, end_time, current_time, n_rows,
                    batch_counter, batch_ids, notQc >>

\* generate_quality_control_csv: the same with random.randint(60, 180)
\* (the first MaxCsvTicks ticks)
CsvQcLoop ==
    /\ variant = "csv" /\ pc = "loop"
    /\ Len(tick_times) < MaxCsvTicks
    /\ IF InWindow(current_time, end_time)
       THEN \E u \in UniformDraws :
              LET t == current_time + RandInt(60, 180, u)
              IN  IF t > end_time
                  THEN /\ pc' = "done"
                       /\ UNCHANGED << next_test, line, tick_times >>
                  ELSE /\ pc' = "for_line"
                       /\ next_test' = t
                       /\ line' = 0
                       /\ tick_times' = Append(tick_times, current_time)
       ELSE /\ pc' = "done"
            /\ UNCHANGED << next_test, line, tick_times >>
    /\ appended' = << >>
    /\ UNCHANGED << variant, start_time, end_time, current_time, n_rows,
                    batch_counter, batch_ids, notQc >>

\* for line_id in LINES: if random.random() < p (p is 0.7 in
\* generate_iot_data.py, 0.6 in generate_sample_data.py); after the last
\* line, current_time = next_test
QcForLine ==
    /\ pc = "for_line"
    /\ IF line < Len(LINES)
       THEN /\ line' = line + 1
            /\ \E tested \in Bernoulli(IF variant = "db" THEN (7 * Scale) \div 10
                                       ELSE (6 * Scale) \div 10) :
                 pc' = IF tested THEN "test" ELSE "for_line"
            /\ UNCHANGED current_time
       ELSE /\ current_time' = next_test
            /\ pc' = "loop"
            /\ UNCHANGED line
    /\ appended' = << >>
    /\ UNCHANGED << variant, start_time, end_time, n_rows, tick_times, qcVars,
                    notQc >>

\* the record of one test, as generate_quality_control_data appends it
QualityRecords ==
    { QualityRow(next_test, BatchId(batch_counter), LINES[line],
                 Choice(PRODUCT_IDS, a), test_type, test_result,
                 Measurement(test_type, test_result, low, u),
                 Choice(INSPECTOR_IDS, a)) :
        a \in UniformDraws, test_type \in Choices(TEST_TYPES),
        test_result \in { IF passed THEN "pass" ELSE "fail" :
                          passed \in Bernoulli((95 * Scale) \div 100) },
        low \in Bernoulli(Scale \div 2), u \in UniformDraws }

\* generate_quality_control_data: the body of `if random.random() < 0.7`
QcTest ==
    /\ variant = "db" /\ pc = "test"
    /\ \E row \in QualityRecords :
         /\ appended' = << row >>
         /\ batch_ids' = Append(batch_ids, << row.time, row.batch_id >>)
    /\ batch_counter' = NextBatch(batch_counter)
    /\ n_rows' = n_rows + 1
    /\ pc' = "for_line"
    /\ UNCHANGED << variant, start_time, end_time, current_time, line,
                    tick_times, next_test, notQc >>

\* generate_quality_control_csv: the body of `if random.random() < 0.6`
CsvQcTest ==
    /\ variant = "csv" /\ pc = "test"
    /\ \E row \in QualityRecords :
         /\ appended' = << CsvQualityRow(row) >>
         /\ batch_ids' = Append(batch_ids, << row.time, row.batch_id >>)
    /\ batch_counter' = NextBatch(batch_counter)
    /\ n_rows' = n_rows + 1
    /\ pc' = "for_line"
    /\ UNCHANGED << variant, start_time, end_time, current_time, line,
                    tick_times, next_test, notQc >>

\* start_time and window given to generate_quality_control_data
QualityCalls ==
    { << At(Monday, 8, 0), 20 >>, << At(Monday, 8, 0), 29 >>,
      << At(Monday, 8, 0), 210 >> }

InitQuality ==
    /\ \/ /\ variant = "db"
          /\ \E call \in QualityCalls :
               /\ start_time = call[1]
               /\ end_time = call[1] + call[2]
       \/ /\ variant = "csv"
          /\ start_time = At(Monday, 8, 0)
          /\ end_time = start_time + 3 * MinutesPerDay
    /\ pc = "loop"
    /\ current_time = start_time
    /\ interval_minutes = 0
    /\ appended = << >>
    /\ n_rows = 0
    /\ eq = 0
    /\ line = 0
    /\ tick_times = << >>
    /\ next_test = start_time
    /\ batch_counter = 1000
    /\ batch_ids = << >>
    /\ SensorIdle
    /\ ProdIdle
    /\ MaintIdle
    /\ InsertIdle
    /\ MainIdle
    /\ SimpleIdle
    /\ ClassIdle

NextQuality ==
    \/ QcLoop
    \/ CsvQcLoop
    \/ QcForLine
    \/ QcTest
    \/ CsvQcTest

SpecQuality == InitQuality /\ [][NextQuality]_vars

\* --------------------------------------------- claims: quality control
RECURSIVE StrLess(_, _)
\* string order on digit sequences: a < b
StrLess(a, b) ==
    IF b = << >> THEN FALSE
    ELSE IF a = << >> THEN TRUE
    ELSE IF Head(a) # Head(b) THEN Head(a) < Head(b)
    ELSE StrLess(Tail(a), Tail(b))

\* C6: batch_id values are strictly increasing in output order and none
\* occurs twice; the counter has gone up by exactly one per emitted record,
\* and the latest record carries the latest id.
C6_BatchIdsIncrease ==
    /\ \A i \in 1 .. Len(batch_ids) - 1 :
         StrLess(batch_ids[i][2], batch_ids[i + 1][2])
    /\ \A i, j \in DOMAIN batch_ids :
         i # j => batch_ids[i][2] # batch_ids[j][2]
    /\ \A i \in DOMAIN batch_ids : batch_ids[i][2] = BatchId(1000 + i - 1)
    /\ Len(batch_ids) = n_rows
    /\ batch_counter = 1000 + n_rows
    /\ \A row \in Rows : row.batch_id = batch_ids[Len(batch_ids)][2]

\* C6 witness: both lines were tested at one timestamp, a line has skipped a
\* test, and a third record has followed
C6_Witness ==
    /\ Len(batch_ids) >= 3
    /\ \E i \in 1 .. Len(batch_ids) - 1 : batch_ids[i][1] = batch_ids[i + 1][1]
    /\ Len(batch_ids) < 2 * Len(tick_times)
    /\ appended # << >>

\* C7 as stated: in a dimensional or electrical record, 'pass' has the
\* written measurement strictly between the tolerances and 'fail' has it
\* strictly below tolerance_min or strictly above tolerance_max.
C7_StrictlyInsideOrOutside ==
    \A row \in Rows :
      row.test_type \in { "dimensional", "electrical" } =>
        LET m == row.measurement_value[1]
            lo == row.tolerance_min[1]
            hi == row.tolerance_max[1]
        IN  /\ row.test_result = "pass" => lo < m /\ m < hi
            /\ row.test_result = "fail" => m < lo \/ m > hi

\* C8: measurement_value, tolerance_min and tolerance_max are all absent in
\* a visual or functional record and all present in a dimensional or
\* electrical one.
C8_MeasurementPresence ==
    \A row \in Rows :
      /\ row.test_type \in { "visual", "functional" } =>
           /\ row.measurement_value = None
           /\ row.tolerance_min = None
           /\ row.tolerance_max = None
      /\ row.test_type \in { "dimensional", "electrical" } =>
           /\ row.measurement_value # None
           /\ row.tolerance_min # None
           /\ row.tolerance_max # None

\* C8 witness: the csv generator has written an electrical record, whose
\* measurement went through `round(...) if measurement_value else None`
C8_Witness ==
    /\ variant = "csv"
    /\ \E row \in Rows :
         /\ row.test_type = "electrical"
         /\ row.test_result = "fail"
         /\ row.measurement_value # None

\* the shortest interval random.randint(30, 180) / random.randint(60, 180)
\* puts between two tests
MinTestInterval == IF variant = "db" THEN 30 ELSE 60

\* C11: over a window shorter than the minimum test interval the
\* quality-control generator emits no record, whatever is drawn.
C11_ShortWindowNoRecords ==
    end_time - start_time < MinTestInterval =>
      /\ n_rows = 0
      /\ appended = << >>
      /\ batch_ids = << >>
      /\ pc \in { "loop", "done" }

\* C11 witness: the generator has run to its end over a window of less than
\* 30 minutes, after drawing an interval
C11_Witness ==
    /\ variant = "db"
    /\ start_time <= end_time
    /\ end_time - start_time < MinTestInterval
    /\ pc = "done"

\* ---------------------------------------------------- maintenance model
TECHNICIAN_IDS == << "TECH_001", "TECH_002", "TECH_003", "TECH_004", "TECH_005" >>

fault_types == << "bearing failure", "sensor malfunction", "electrical issue",
                  "hydraulic leak", "belt replacement", "calibration drift" >>

parts_options == << << "bearings", "seals" >>, << "sensors", "wiring" >>,
                    << "electrical_components" >>,
                    << "hydraulic_seals", "hoses" >>, << "belts", "pulleys" >>,
                    << "calibration_tools" >> >>

\* generate_sample_data.py: parts_options, written as array literals
csv_parts_options == << "{bearings,seals}", "{sensors,wiring}",
                        "{electrical_components}", "{hydraulic_seals,hoses}",
                        "{belts,pulleys}", "" >>

\* mutant of MaintTime: the next preventive time is the cursor itself
MaintTimeStuck(t, u) == t

\* mutant of MaintTime: intervals of three to five weeks
MaintTimeFrom21(t, u) == t + RandInt(21, 35, u) * MinutesPerDay

\* maint_time = current_time + timedelta(days=random.randint(28, 35))
MaintTime(t, u) == t + RandInt(28, 35, u) * MinutesPerDay

\* days_passed = (current_time - start_time).days
DaysPassed == Days(current_time, start_time)

\* the tuple appended to data / the list given to writer.writerow
MaintenanceRow(t, equipment_id, event_type, maintenance_type, duration, cost, technician, description, parts) ==
    [time |-> t, equipment_id |-> equipment_id, event_type |-> event_type,
     maintenance_type |-> maintenance_type, duration |-> Round(duration, 1),
     cost |-> Round(cost, 2), technician_id |-> technician,
     description |-> description, parts_replaced |-> parts]

\* the preventive record at maint_time
PreventiveRow(a, parts) ==
    MaintenanceRow(maint_time, EQUIPMENT_IDS[eq], "scheduled", "preventive",
                   Uniform(2 * Scale, 6 * Scale, a),
                   Uniform(500 * Scale, 2000 * Scale, a),
                   Choice(TECHNICIAN_IDS, a),
                   << "Scheduled preventive maintenance for", EQUIPMENT_IDS[eq] >>,
                   parts)

\* the corrective record at fault_time
CorrectiveRow(fault_time, a, parts) ==
    MaintenanceRow(fault_time, EQUIPMENT_IDS[eq], "unscheduled", "corrective",
                   Uniform(Scale, 8 * Scale, a),
                   Uniform(200 * Scale, 5000 * Scale, a),
                   Choice(TECHNICIAN_IDS, a),
                   << "Unscheduled repair:", Choice(fault_types, a) >>,
                   parts)

\* for equipment_id in EQUIPMENT_IDS: current_time = start_time
MaintForEquipment ==
    /\ pc = "for_equipment"
    /\ IF eq < NumEquipment
       THEN /\ eq' = eq + 1
            /\ current_time' = start_time
            /\ scheduled' = << >>
            /\ pc' = "while"
       ELSE /\ pc' = "done"
            /\ UNCHANGED << eq, current_time, scheduled >>
    /\ appended' = << >>
    /\ UNCHANGED << n_rows, maint_time, day, week, faults, notMaint >>

\* while current_time <= end_time: maint_time = ...; if maint_time <= end_time
MaintWhile ==
    /\ pc = "while"
    /\ IF InWindow(current_time, end_time)
       THEN \E u \in UniformDraws :
              /\ maint_time' = MaintTime(current_time, u)
              /\ pc' = IF maint_time' <= end_time THEN "preventive"
                       ELSE "unscheduled"
       ELSE /\ pc' = "for_equipment"
            /\ UNCHANGED maint_time
    /\ appended' = << >>
    /\ UNCHANGED << current_time, n_rows, eq, day, week, scheduled, faults,
                    notMaint >>

\* generate_maintenance_events: the preventive record
MaintPreventive ==
    /\ variant = "db" /\ pc = "preventive"
    /\ \E a \in UniformDraws, with_parts \in Bernoulli((7 * Scale) \div 10) :
         appended' = << PreventiveRow(a, IF with_parts
                                         THEN << "filters", "lubricants" >>
                                         ELSE None) >>
    /\ scheduled' = Append(scheduled, maint_time)
    /\ n_rows' = n_rows + 1
    /\ pc' = "unscheduled"
    /\ UNCHANGED << current_time, eq, maint_time, day, week, faults, notMaint >>

\* generate_maintenance_events_csv: the preventive record
CsvMaintPreventive ==
    /\ variant = "csv" /\ pc = "preventive"
    /\ \E a \in UniformDraws, with_parts \in Bernoulli((7 * Scale) \div 10) :
         appended' = << PreventiveRow(a, IF with_parts
                                         THEN "{filters,lubricants}" ELSE "") >>
    /\ scheduled' = Append(scheduled, maint_time)
    /\ n_rows' = n_rows + 1
    /\ pc' = "unscheduled"
    /\ UNCHANGED << current_time, eq, maint_time, day, week, faults, notMaint >>

\* days_passed = ...; for day in range(days_passed, days_passed + 30): entry
\* (generate_sample_data.py: week_start = current_time; for week in range(4))
MaintUnscheduled ==
    /\ pc = "unscheduled"
    /\ IF variant = "db"
       THEN day' = DaysPassed /\ week' = week /\ pc' = "for_day"
       ELSE week' = 0 /\ day' = day /\ pc' = "for_week"
    /\ appended' = << >>
    /\ UNCHANGED << current_time, n_rows, eq, maint_time, scheduled, faults,
                    notMaint >>

\* for day in range(days_passed, days_passed + 30):
\* if random.random() < 0.02; after the last day, current_time = maint_time
MaintForDay ==
    /\ pc = "for_day"
    /\ IF day < DaysPassed + 30
       THEN \/ /\ day' = day + 1
               /\ UNCHANGED << pc, current_time, faults >>
            \/ /\ faults < MaxFaults
               /\ faults' = faults + 1
               /\ pc' = "fault"
               /\ UNCHANGED << day, current_time >>
       ELSE /\ current_time' = maint_time
            /\ pc' = "while"
            /\ UNCHANGED << day, faults >>
    /\ appended' = << >>
    /\ UNCHANGED << n_rows, eq, maint_time, week, scheduled, notMaint >>

\* mutant of MaintFault: the corrective record is appended whatever fault_time
MaintFaultNoWindowTest ==
    /\ variant = "db" /\ pc = "fault"
    /\ \E h \in UniformDraws, a \in UniformDraws :
         appended' = << CorrectiveRow(start_time + day * MinutesPerDay
                                        + RandInt(8, 18, h) * 60, a, None) >>
    /\ n_rows' = n_rows + 1
    /\ day' = day + 1
    /\ pc' = "for_day"
    /\ UNCHANGED << current_time, eq, maint_time, week, scheduled, faults,
                    notMaint >>

\* fault_time = start_time + timedelta(days=day, hours=random.randint(8, 18));
\* if fault_time <= end_time: the corrective record
MaintFault ==
    /\ variant = "db" /\ pc = "fault"
    /\ \E h \in UniformDraws :
         LET fault_time == start_time + day * MinutesPerDay
                             + RandInt(8, 18, h) * 60
         IN  IF fault_time <= end_time
             THEN /\ \E a \in UniformDraws,
                        with_parts \in Bernoulli((8 * Scale) \div 10) :
                       appended' =
                         << CorrectiveRow(fault_time, a,
                              IF with_parts THEN Choice(parts_options, a)
                              ELSE None) >>
                  /\ n_rows' = n_rows + 1
             ELSE /\ appended' = << >>
                  /\ UNCHANGED n_rows
    /\ day' = day + 1
    /\ pc' = "for_day"
    /\ UNCHANGED << current_time, eq, maint_time, week, scheduled, faults,
                    notMaint >>

\* for week in range(4): if random.random() < 0.02; else
\* week_start += timedelta(days=7); after the last week,
\* current_time = maint_time
CsvMaintForWeek ==
    /\ pc = "for_week"
    /\ IF week < 4
       THEN \/ /\ week' = week + 1
               /\ UNCHANGED << pc, current_time, faults >>
            \/ /\ faults < MaxFaults
               /\ faults' = faults + 1
               /\ pc' = "fault"
               /\ UNCHANGED << week, current_time >>
       ELSE /\ current_time' = maint_time
            /\ pc' = "while"
            /\ UNCHANGED << week, faults >>
    /\ appended' = << >>
    /\ UNCHANGED << n_rows, eq, maint_time, day, scheduled, notMaint >>

\* fault_time = week_start + timedelta(days=random.randint(0, 6),
\* hours=random.randint(8, 18)); if fault_time <= end_time: the corrective
\* record; week_start += timedelta(days=7)
CsvMaintFault ==
    /\ variant = "csv" /\ pc = "fault"
    /\ \E h \in UniformDraws :
         LET week_start == current_time + week * 7 * MinutesPerDay
             fault_time == week_start + RandInt(0, 6, h) * MinutesPerDay
                             + RandInt(8, 18, h) * 60
         IN  IF fault_time <= end_time
             THEN /\ \E a \in UniformDraws :
                       appended' =
                         << CorrectiveRow(fault_time, a,
                                          Choice(csv_parts_options, a)) >>
                  /\ n_rows' = n_rows + 1
             ELSE /\ appended' = << >>
                  /\ UNCHANGED n_rows
    /\ week' = week + 1
    /\ pc' = "for_week"
    /\ UNCHANGED << current_time, eq, maint_time, day, scheduled, faults,
                    notMaint >>

\* start_time and window given to generate_maintenance_events
MaintenanceCalls == { << At(Monday, 9, 0), 70 * MinutesPerDay >> }

InitMaintenance ==
    /\ \/ /\ variant = "db"
          /\ \E call \in MaintenanceCalls :
               /\ start_time = call[1]
               /\ end_time = call[1] + call[2]
       \/ /\ variant = "csv"
          /\ start_time = At(Monday, 9, 0)
          /\ end_time = start_time + 90 * MinutesPerDay
    /\ pc = "for_equipment"
    /\ current_time = start_time
    /\ interval_minutes = 0
    /\ appended = << >>
    /\ n_rows = 0
    /\ eq = 0
    /\ line = 0
    /\ tick_times = << >>
    /\ maint_time = start_time
    /\ day = 0
    /\ week = 0
    /\ scheduled = << >>
    /\ faults = 0
    /\ SensorIdle
    /\ ProdIdle
    /\ QcIdle
    /\ InsertIdle
    /\ MainIdle
    /\ SimpleIdle
    /\ ClassIdle

NextMaintenance ==
    \/ MaintForEquipment
    \/ MaintWhile
    \/ MaintPreventive
    \/ CsvMaintPreventive
    \/ MaintUnscheduled
    \/ MaintForDay
    \/ MaintFault
    \/ CsvMaintForWeek
    \/ CsvMaintFault

SpecMaintenance == InitMaintenance /\ [][NextMaintenance]_vars

\* ------------------------------------------------- claims: maintenance
\* the time from the previous preventive event of the equipment in hand
\* (the window start for the first) to its i-th
Gap(i) == scheduled[i] - (IF i = 1 THEN start_time ELSE scheduled[i - 1])

\* C9: the time between consecutive preventive events of one equipment, and
\* from the window start to the first, is between 28 and 35 days; every
\* 'scheduled' record emitted is the latest preventive event of the
\* equipment in hand.
C9_PreventiveIntervals ==
    /\ \A i \in DOMAIN scheduled :
         /\ 28 * MinutesPerDay <= Gap(i)
         /\ Gap(i) <= 35 * MinutesPerDay
    /\ \A row \in Rows :
         row.event_type = "scheduled" =>
           /\ scheduled # << >>
           /\ row.time = scheduled[Len(scheduled)]
           /\ row.equipment_id = EQUIPMENT_IDS[eq]

\* C9 witness: a second preventive event has just been emitted for an
\* equipment, 28 days after one that came 35 days into the window
C9_Witness ==
    /\ Len(scheduled) = 2
    /\ Gap(1) = 35 * MinutesPerDay
    /\ Gap(2) = 28 * MinutesPerDay
    /\ \E row \in Rows : row.event_type = "scheduled"

\* C22: in both generators every maintenance event emitted, scheduled or
\* unscheduled, has a timestamp between start_time and end_time; a scheduled
\* event is emitted only for a preventive time that is not after end_time, so
\* the last iteration of the loop of an equipment emits none.
C22_EventsInsideWindow ==
    \A row \in Rows :
      /\ start_time <= row.time
      /\ row.time <= end_time
      /\ row.event_type \in { "scheduled", "unscheduled" }
      /\ row.event_type = "scheduled" =>
           row.time = maint_time /\ maint_time <= end_time

\* C22 witness: in the last iteration of the loop of an equipment, whose
\* preventive time is after end_time, a corrective event of the last day that
\* still begins inside the window has been emitted
C22_Witness ==
    /\ maint_time > end_time
    /\ \E row \in Rows :
         /\ row.event_type = "unscheduled"
         /\ row.time + MinutesPerDay > end_time

\* ------------------------------------------------------ insert_data_batch
batch_size == 1000

MaxBatches == 2     \* whole batches in the longest data given to insert_data_batch

\* mutant of Slice: the slice is not cut at the end of the list
SliceNotCut(lo, total) == << lo, lo + batch_size >>

\* data[lo:lo + batch_size] of a list of total rows, as the pair of its ends
Slice(lo, total) == << lo, Min(lo + batch_size, total) >>

\* mutant of Rollback: the open transaction is kept
RollbackKeeps(transaction) == transaction

\* conn.rollback(): the open transaction is discarded
Rollback(transaction) == << >>

\* what the insert leaves alone
notInsert == << variant, start_time, end_time, interval_minutes, current_time,
                appended, n_rows, eq, line, tick_times, sensorVars, prodVars,
                qcVars, maintVars,
                 mainVars,
                 simpleVars,
                 classVars >>

\* for i in range(0, total_records, batch_size):
\* batch = data[i:i + batch_size];
\* after the last batch, cursor.close(); return True
InsertFor ==
    /\ pc = "insert_for"
    /\ IF insert_i < n_rows
       THEN /\ batch' = Slice(insert_i, n_rows)
            /\ pc' = "execute_values"
            /\ UNCHANGED success
       ELSE /\ success' = "True"
            /\ pc' = "returned"
            /\ UNCHANGED batch
    /\ UNCHANGED << table_name, insert_i, staged, committed, notInsert >>

\* psycopg2.extras.execute_values(cursor, query, batch, page_size=batch_size):
\* the rows join the open transaction, or psycopg2.Error is raised
ExecuteValues ==
    /\ pc = "execute_values"
    /\ \/ /\ staged' = Append(staged, batch)
          /\ pc' = "commit"
       \/ /\ pc' = "except"
          /\ UNCHANGED staged
    /\ UNCHANGED << table_name, insert_i, batch, committed, success, notInsert >>

\* conn.commit(): the open transaction becomes durable, or psycopg2.Error is
\* raised; then the next i
Commit ==
    /\ pc = "commit"
    /\ \/ /\ committed' =
               committed \o [k \in DOMAIN staged |-> << table_name, staged[k] >>]
          /\ staged' = << >>
          /\ insert_i' = insert_i + batch_size
          /\ pc' = "insert_for"
       \/ /\ pc' = "except"
          /\ UNCHANGED << committed, staged, insert_i >>
    /\ UNCHANGED << table_name, batch, success, notInsert >>

\* except psycopg2.Error: conn.rollback(); return False
InsertExcept ==
    /\ pc = "except"
    /\ staged' = Rollback(staged)
    /\ success' = "False"
    /\ pc' = "returned"
    /\ UNCHANGED << table_name, insert_i, batch, committed, notInsert >>

\* len(data) of the lists given to insert_data_batch: none, whole batches,
\* and one row more or less
InsertSizes ==
    { n \in { k * batch_size + d :
               k \in 0 .. MaxBatches, d \in { 0 - 1, 0, 1, 500 } } : n >= 0 }

TABLES == << "sensor_data", "production_metrics", "quality_control",
             "maintenance_events" >>

InitInsert ==
    /\ variant = "db"
    /\ pc = "insert_for"
    /\ table_name \in Choices(TABLES)
    /\ n_rows \in InsertSizes
    /\ insert_i = 0
    /\ batch = << >>
    /\ staged = << >>
    /\ committed = << >>
    /\ success = "unset"
    /\ start_time = 0
    /\ end_time = 0
    /\ interval_minutes = 0
    /\ current_time = 0
    /\ appended = << >>
    /\ eq = 0
    /\ line = 0
    /\ tick_times = << >>
    /\ SensorIdle
    /\ ProdIdle
    /\ QcIdle
    /\ MaintIdle
    /\ MainIdle
    /\ SimpleIdle
    /\ ClassIdle

NextInsert ==
    \/ InsertFor
    \/ ExecuteValues
    \/ Commit
    \/ InsertExcept

SpecInsert == InitInsert /\ [][NextInsert]_vars

\* -------------------------------------------- claims: insert_data_batch
\* the number, from 1, of the batch that starts at row lo
BatchNumber(lo) == lo \div batch_size + 1

\* the j-th batch of table_name
NthBatch(j) == << table_name, Slice((j - 1) * batch_size, n_rows) >>

BatchLen(b) == b[2] - b[1]

\* C24: when insert_data_batch returns True, the committed batches are
\* consecutive slices of the input that begin at its first row and end at its
\* last, each of 1 to 1000 rows and all but the last of exactly 1000, so every
\* row is written once and in order; nothing is left in the transaction; an
\* empty input executes and commits nothing and returns True.
C24_BatchesPartitionInput ==
    /\ (pc = "returned" /\ success = "True") =>
         LET m == Len(committed)
         IN  /\ staged = << >>
             /\ m = (n_rows + batch_size - 1) \div batch_size
             /\ \A j \in 1 .. m :
                  /\ committed[j][1] = table_name
                  /\ committed[j][2][1] =
                       (IF j = 1 THEN 0 ELSE committed[j - 1][2][2])
                  /\ BatchLen(committed[j][2]) >= 1
                  /\ BatchLen(committed[j][2]) <= batch_size
                  /\ j < m => BatchLen(committed[j][2]) = batch_size
             /\ m > 0 => committed[m][2][2] = n_rows
    /\ n_rows = 0 =>
         /\ pc \in { "insert_for", "returned" }
         /\ committed = << >>
         /\ staged = << >>
         /\ pc = "returned" => success = "True"

\* C24 witness: a list of two whole batches and one row more has been written
\* in three batches, the last of one row
C24_Witness ==
    /\ pc = "returned" /\ success = "True"
    /\ n_rows = 2 * batch_size + 1
    /\ Len(committed) = 3
    /\ BatchLen(committed[3][2]) = 1

\* -------------------------------------------------------------------- main
\* end_time - start_time of main: timedelta(days=7)
MainWindow == 7 * MinutesPerDay

\* the ticks of `while current_time <= end_time` over main's window
MainTicks(interval) == MainWindow \div interval + 1

\* len() of what the generator of a table can return over main's window:
\* every sensor tick gives RowsPerTick rows, every production tick one row
\* per equipment of a line; quality control gives up to two records per 30
\* minutes, maintenance up to one corrective event per equipment and day
GeneratedLengths(table) ==
    CASE table = "sensor_data" -> { MainTicks(1) * RowsPerTick }
      [] table = "production_metrics" ->
           { MainTicks(5) * (Len(LineEquipment(LINES[1]))
                               + Len(LineEquipment(LINES[2]))) }
      [] table = "quality_control" -> { 0, 1, 2 * (MainWindow \div 30) }
      [] table = "maintenance_events" -> { 0, 1, 7 * NumEquipment }

\* the generators that can raise: generate_production_metrics evaluates
\* random.exponential on its downtime branch
Raises(table) == table = "production_metrics"

\* what main's own steps leave alone
notMain == << variant, start_time, end_time, interval_minutes, current_time,
              appended, eq, line, tick_times, sensorVars, prodVars, qcVars,
              maintVars,
               simpleVars,
               classVars >>

\* mutant of MainConnect: a failed connection does not end the run
MainConnectNoExit ==
    /\ pc = "connect"
    /\ \/ conn' = "open"
       \/ UNCHANGED conn
    /\ pc' = "generate"
    /\ UNCHANGED << generated, closes, outcome, n_rows, insertVars, notMain >>

\* conn = connect_to_db(): psycopg2.connect returns, or raises psycopg2.Error
\* and connect_to_db calls sys.exit(1)
MainConnect ==
    /\ pc = "connect"
    /\ \/ /\ conn' = "open"
          /\ pc' = "generate"
          /\ UNCHANGED outcome
       \/ /\ outcome' = "sys.exit(1)"
          /\ pc' = "exited"
          /\ UNCHANGED conn
    /\ UNCHANGED << generated, closes, n_rows, insertVars, notMain >>

\* x_data = generate_x(start_time, end_time, ...) for the next table, then the
\* call of insert_data_batch(conn, table, x_data, columns); or the generator
\* raises
MainGenerate ==
    /\ pc = "generate"
    /\ LET table == TABLES[Len(generated) + 1]
       IN  /\ generated' = Append(generated, table)
           /\ \/ /\ n_rows' \in GeneratedLengths(table)
                 /\ table_name' = table
                 /\ insert_i' = 0
                 /\ batch' = << >>
                 /\ success' = "unset"
                 /\ pc' = "insert_for"
              \/ /\ Raises(table)
                 /\ pc' = "main_except"
                 /\ UNCHANGED << n_rows, table_name, insert_i, batch, success >>
    /\ UNCHANGED << conn, closes, outcome, staged, committed, notMain >>

\* mutant of MainAfterInsert: `if not success: ... return` left out
MainAfterInsertNoReturn ==
    /\ pc = "returned"
    /\ IF Len(generated) < Len(TABLES)
       THEN pc' = "generate" /\ UNCHANGED outcome
       ELSE pc' = "finally" /\ outcome' = "complete"
    /\ UNCHANGED << conn, generated, closes, n_rows, insertVars, notMain >>

\* success = insert_data_batch(...); if not success: print(...); return;
\* after the last table the totals are printed
MainAfterInsert ==
    /\ pc = "returned"
    /\ IF success = "False"
       THEN pc' = "finally" /\ outcome' = "return"
       ELSE IF Len(generated) < Len(TABLES)
       THEN pc' = "generate" /\ UNCHANGED outcome
       ELSE pc' = "finally" /\ outcome' = "complete"
    /\ UNCHANGED << conn, generated, closes, n_rows, insertVars, notMain >>

\* conn.rollback() in the handler of insert_data_batch raises psycopg2.Error
\* (the connection is lost): the exception leaves insert_data_batch, the open
\* transaction is never made durable, and main's `except Exception` takes it
MainRollbackRaises ==
    /\ pc = "except"
    /\ staged' = << >>
    /\ pc' = "main_except"
    /\ UNCHANGED << conn, generated, closes, outcome, n_rows, table_name,
                    insert_i, batch, committed, success, notMain >>

\* mutant of MainExcept: the run ends in the handler, without the finally
\* clause
MainExceptNoFinally ==
    /\ pc = "main_except"
    /\ outcome' = "error"
    /\ pc' = "exited"
    /\ UNCHANGED << conn, generated, closes, n_rows, insertVars, notMain >>

\* except Exception as e: print(f"Error during data generation: {e}")
MainExcept ==
    /\ pc = "main_except"
    /\ outcome' = "error"
    /\ pc' = "finally"
    /\ UNCHANGED << conn, generated, closes, n_rows, insertVars, notMain >>

\* finally: conn.close()
MainFinally ==
    /\ pc = "finally"
    /\ conn' = "closed"
    /\ closes' = closes + 1
    /\ pc' = "exited"
    /\ UNCHANGED << generated, outcome, n_rows, insertVars, notMain >>

InitMain ==
    /\ variant = "db"
    /\ pc = "connect"
    /\ start_time = At(Monday, 9, 0)
    /\ end_time = start_time + MainWindow
    /\ interval_minutes = 0
    /\ current_time = start_time
    /\ appended = << >>
    /\ n_rows = 0
    /\ eq = 0
    /\ line = 0
    /\ tick_times = << >>
    /\ SensorIdle
    /\ ProdIdle
    /\ QcIdle
    /\ MaintIdle
    /\ InsertIdle
    /\ MainIdle
    /\ SimpleIdle
    /\ ClassIdle

NextMain ==
    \/ MainConnect
    \/ MainGenerate
    \/ InsertFor
    \/ ExecuteValues
    \/ Commit
    \/ InsertExcept
    \/ MainRollbackRaises
    \/ MainAfterInsert
    \/ MainExcept
    \/ MainFinally

SpecMain == InitMain /\ [][NextMain]_vars

\* main is run to its end: every call it makes returns or raises, and the
\* interpreter runs the next statement for as long as there is one
SpecMainFair == SpecMain /\ WF_vars(NextMain)

\* ----------------------------------------------------------- claims: main
\* the place of a table in the order of main
TableIndex(table) == CHOOSE k \in DOMAIN TABLES : TABLES[k] = table

\* s is an initial part of t
IsPrefix(s, t) == Len(s) <= Len(t) /\ s = SubSeq(t, 1, Len(s))

\* C13: main takes the tables in the order sensor_data, production_metrics,
\* quality_control, maintenance_events; committed batches stay committed;
\* once insert_data_batch has returned False nothing more is generated or
\* written.
C13_OrderAndStop ==
    /\ [](/\ IsPrefix(generated, TABLES)
          /\ \A j \in DOMAIN committed :
               /\ TableIndex(committed[j][1]) <= Len(generated)
               /\ \A k \in DOMAIN committed :
                    j <= k =>
                      TableIndex(committed[j][1]) <= TableIndex(committed[k][1])
          /\ outcome = "return" => success = "False")
    /\ [][/\ IsPrefix(committed, committed')
          /\ success = "False" =>
               /\ generated' = generated
               /\ committed' = committed
               /\ success' = "False"
               /\ pc' \in { "finally", "exited" }]_vars

\* C13 witness: a later batch of production_metrics failed; main has
\* returned with the sensor_data batches and the earlier production_metrics
\* batches committed
C13_Witness ==
    /\ pc = "exited"
    /\ outcome = "return"
    /\ generated = << "sensor_data", "production_metrics" >>
    /\ committed # << >>
    /\ committed[1][1] = "sensor_data"
    /\ committed[Len(committed)][1] = "production_metrics"

\* C14: when connecting fails the run ends in sys.exit(1) with no generator
\* called and nothing written; a generator is only ever called on an
\* established connection.
C14_NoGenerationBeforeConnect ==
    /\ outcome = "sys.exit(1)" =>
         /\ pc = "exited"
         /\ conn = "none"
         /\ generated = << >>
         /\ committed = << >>
         /\ staged = << >>
         /\ n_rows = 0
    /\ (generated # << >> \/ pc \notin { "connect", "exited" }) => conn # "none"

\* C14 witness: psycopg2.connect has failed and the run has ended
C14_Witness ==
    /\ outcome = "sys.exit(1)"
    /\ pc = "exited"

\* ------------------------------------------------- empty and reversed windows
\* start_time, window, interval_minutes of calls of generate_sensor_data with
\* end_time = start_time and with end_time < start_time
EmptyWindowCalls ==
    { << At(Tuesday, 9, 0), 0, 60 >>, << At(Tuesday, 9, 0), 0 - 60, 60 >> }

InitEmptyWindow ==
    /\ \E call \in EmptyWindowCalls : InitSensorDb(call)
    /\ InitSensorLocals

SpecEmptyWindow == InitEmptyWindow /\ [][NextSensorDb]_vars

\* C15 as stated: over a window with end_time <= start_time the generator
\* produces no record.
C15_EmptyWindowNoRecords ==
    end_time <= start_time => n_rows = 0 /\ appended = << >>

\* ------------------------------------------------------ operating schedule
\* generate_simple_data.py: operating_factor in tenths, 0.4 / 0.7 / 1.0
SimpleOperatingFactor(t) ==
    IF Weekday(t) >= 5 THEN 4
    ELSE IF Hour(t) < 6 \/ Hour(t) > 22 THEN 7
    ELSE 10

\* the timestamps a tick is taken at: every quarter of an hour of one week
ScheduleTimes == { 15 * k : k \in 0 .. (7 * MinutesPerDay) \div 15 - 1 }

\* hour = current_time.hour ...: the operating factor of the tick at
\* current_time, in each of the three generators
ApplySchedule ==
    /\ pc = "schedule"
    /\ operating_factor' = IF variant = "simple"
                           THEN SimpleOperatingFactor(current_time)
                           ELSE OperatingFactor(current_time)
    /\ pc' = "scheduled"
    /\ UNCHANGED << variant, start_time, end_time, interval_minutes,
                    current_time, appended, n_rows, eq, line, tick_times,
                    temperature, vibration, status_, spike, sensorVars,
                    prodVars, qcVars, maintVars, insertVars, mainVars,
                    classVars >>

InitSchedule ==
    /\ variant \in { "db", "csv", "simple" }
    /\ pc = "schedule"
    /\ current_time \in ScheduleTimes
    /\ start_time = current_time
    /\ end_time = current_time
    /\ interval_minutes = 0
    /\ appended = << >>
    /\ n_rows = 0
    /\ eq = 0
    /\ line = 0
    /\ tick_times = << >>
    /\ SensorIdle
    /\ ProdIdle
    /\ QcIdle
    /\ MaintIdle
    /\ InsertIdle
    /\ MainIdle
    /\ SimpleIdle
    /\ ClassIdle

NextSchedule == ApplySchedule

SpecSchedule == InitSchedule /\ [][NextSchedule]_vars

\* ------------------------------------------------ claims: operating schedule
\* minutes since midnight
MinuteOfDay(t) == t % MinutesPerDay

\* Saturday or Sunday
IsWeekend(t) == t \div MinutesPerDay \in { Saturday, Sunday }

\* the weekend and night values of a generator, in tenths
WeekendValue == IF variant = "simple" THEN 4 ELSE 3
NightValue == IF variant = "simple" THEN 7 ELSE 6

\* C16 as stated: the weekend value on Saturday and Sunday, otherwise the
\* night value before 06:00 and after 22:00, otherwise 1.0.
C16_NightAfter22 ==
    pc = "scheduled" =>
      operating_factor =
        IF IsWeekend(current_time) THEN WeekendValue
        ELSE IF MinuteOfDay(current_time) < 6 * 60
                \/ MinuteOfDay(current_time) > 22 * 60 THEN NightValue
        ELSE 10

\* C16, amended: the weekend value on Saturday and Sunday, otherwise the
\* night value before 06:00 and from 23:00 on, otherwise 1.0.
C16_NightFrom23 ==
    pc = "scheduled" =>
      operating_factor =
        IF IsWeekend(current_time) THEN WeekendValue
        ELSE IF MinuteOfDay(current_time) < 6 * 60
                \/ MinuteOfDay(current_time) >= 23 * 60 THEN NightValue
        ELSE 10

\* C16 witness: a weekday tick at 22:30 has been given the factor 1.0
C16_Witness ==
    /\ pc = "scheduled"
    /\ ~IsWeekend(current_time)
    /\ MinuteOfDay(current_time) = 22 * 60 + 30
    /\ operating_factor = 10

\* --------------------------------------- claims: maintenance, corrective scan
\* C17 as stated: in generate_maintenance_events the days put to a corrective
\* trial in one iteration are exactly those from the cursor to the next
\* preventive time: when the cursor jumps to maint_time, the scan has reached
\* the day of maint_time and has not gone past it.
C17_ScanEndsAtNextPreventive ==
    [][(variant = "db" /\ pc = "for_day" /\ pc' = "while") =>
         day = Days(maint_time, start_time)]_vars

\* ------------------------------- generate_simple_data.py: generate_sensor_data
EQUIPMENT ==
    << [id |-> "MOTOR_001", type |-> "motor", temp_range |-> Range(45, 75),
        vib_range |-> Range(2, 12)],
       [id |-> "MOTOR_002", type |-> "motor", temp_range |-> Range(45, 75),
        vib_range |-> Range(2, 12)],
       [id |-> "PUMP_001", type |-> "pump", temp_range |-> Range(40, 70),
        vib_range |-> Range(5, 18)],
       [id |-> "PUMP_002", type |-> "pump", temp_range |-> Range(40, 70),
        vib_range |-> Range(5, 18)],
       [id |-> "CONV_001", type |-> "conveyor", temp_range |-> Range(25, 60),
        vib_range |-> Range(1, 8)],
       [id |-> "ROBOT_001", type |-> "robot", temp_range |-> Range(35, 65),
        vib_range |-> Range(1, 6)] >>

\* 'critical' above a maximum, 'warning' above 0.9 of a maximum
determine_status(temp_value, temp_max, vib_value, vib_max) ==
    IF temp_value > temp_max \/ vib_value > vib_max THEN "critical"
    ELSE IF temp_value * 10 > temp_max * 9 \/ vib_value * 10 > vib_max * 9
    THEN "warning"
    ELSE "normal"

\* daily_cycle = 4 * math.sin(2 * math.pi * hour / 24)
SimpleDailyCycle(hour) == (4 * Scale * SinTable[hour + 1]) \div 1000

\* temperature = base_temp + daily_cycle + gauss(0, temp_variation)
\*               + temp_drift * days_elapsed + (operating_factor - 0.7) * 5
SimpleTemperature(equipment, t, factor, z) ==
    Mean(equipment.temp_range) + SimpleDailyCycle(Hour(t))
      + Gauss(0, (Width(equipment.temp_range) * 2) \div 10, z)
      + temp_drift[equipment.id] * Days(t, start_time)
      + ((factor - 7) * 5 * Scale) \div 10

\* vibration = max(0.1, base_vib * operating_factor + gauss(0, vib_variation)
\*                      + uniform(-1, 1))
SimpleVibration(equipment, factor, z, u) ==
    Max(Scale \div 10,
        (Mean(equipment.vib_range) * factor) \div 10
          + Gauss(0, (Width(equipment.vib_range) * 3) \div 10, z)
          + Uniform(0 - Scale, Scale, u))

\* the tuple appended to data
SimpleRow(t, eq_id, temp, vib, status) ==
    [time |-> t, equipment_id |-> eq_id, temperature |-> Round(temp, 1),
     vibration |-> Round(vib, 2), status |-> status]

\* what the generator of generate_simple_data.py leaves alone
notSimple == << variant, start_time, end_time, interval_minutes, line,
                vib_drift, raw_value, eq_rows, temp_drift, prodVars, qcVars,
                maintVars, insertVars, mainVars,
                 classVars >>

\* the locals of one reading, before they are assigned
SimpleLocalsCleared ==
    /\ operating_factor' = 0
    /\ temperature' = 0
    /\ vibration' = 0
    /\ status_' = ""
    /\ spike' = 0

\* while current_time <= end_time: ... ; return data (the first MaxCsvTicks
\* ticks)
SimpleLoop ==
    /\ variant = "simple" /\ pc = "loop"
    /\ Len(tick_times) < MaxCsvTicks
    /\ IF InWindow(current_time, end_time)
       THEN /\ pc' = "for"
            /\ eq' = 0
            /\ tick_times' = Append(tick_times, current_time)
       ELSE /\ pc' = "done"
            /\ UNCHANGED << eq, tick_times >>
    /\ appended' = << >>
    /\ UNCHANGED << current_time, n_rows, simpleVars, notSimple >>

\* for equipment in EQUIPMENT; after the last one,
\* current_time += datetime.timedelta(minutes=2)
SimpleFor ==
    /\ variant = "simple" /\ pc = "for"
    /\ IF eq < Len(EQUIPMENT)
       THEN /\ eq' = eq + 1
            /\ pc' = "reading"
            /\ UNCHANGED current_time
       ELSE /\ current_time' = current_time + 2
            /\ pc' = "loop"
            /\ UNCHANGED eq
    /\ appended' = << >>
    /\ SimpleLocalsCleared
    /\ UNCHANGED << n_rows, tick_times, notSimple >>

\* operating factor, temperature, vibration and
\* status = determine_status(temperature, temp_max, vibration, vib_max)
SimpleReading ==
    /\ variant = "simple" /\ pc = "reading"
    /\ \E zt \in NormalDraws, zv \in NormalDraws, u \in UniformDraws :
         LET equipment == EQUIPMENT[eq]
             factor == SimpleOperatingFactor(current_time)
             temp == SimpleTemperature(equipment, current_time, factor, zt)
             vib == SimpleVibration(equipment, factor, zv, u)
         IN  /\ operating_factor' = factor
             /\ temperature' = temp
             /\ vibration' = vib
             /\ status_' = determine_status(temp, equipment.temp_range[2],
                                            vib, equipment.vib_range[2])
    /\ spike' = 0
    /\ pc' = "spike"
    /\ UNCHANGED << current_time, appended, n_rows, eq, tick_times, notSimple >>

\* mutant of SimpleSpike: the spike raises the temperature and the status of
\* before the spike is kept
SimpleSpikeNoRerun ==
    /\ variant = "simple" /\ pc = "spike"
    /\ \/ UNCHANGED << temperature, spike >>
       \/ \E u \in UniformDraws :
            /\ spike' = Uniform(5 * Scale, 15 * Scale, u)
            /\ temperature' = temperature + spike'
    /\ appended' = << SimpleRow(current_time, EQUIPMENT[eq].id, temperature',
                              vibration, status_) >>
    /\ n_rows' = n_rows + 1
    /\ pc' = "for"
    /\ UNCHANGED << current_time, eq, tick_times, operating_factor, vibration,
                    status_, notSimple >>

\* if random.random() < 0.005: temperature += random.uniform(5, 15);
\* status = determine_status(...); then data.append(...)
SimpleSpike ==
    /\ variant = "simple" /\ pc = "spike"
    /\ \/ UNCHANGED << temperature, status_, spike >>
       \/ \E u \in UniformDraws :
            LET equipment == EQUIPMENT[eq]
                jump == Uniform(5 * Scale, 15 * Scale, u)
            IN  /\ spike' = jump
                /\ temperature' = temperature + jump
                /\ status_' = determine_status(temperature + jump,
                                               equipment.temp_range[2],
                                               vibration,
                                               equipment.vib_range[2])
    /\ appended' = << SimpleRow(current_time, EQUIPMENT[eq].id, temperature',
                              vibration, status_') >>
    /\ n_rows' = n_rows + 1
    /\ pc' = "for"
    /\ UNCHANGED << current_time, eq, tick_times, operating_factor, vibration,
                    notSimple >>

\* end_time = now, start_time = end_time - 3 days; equipment_state
InitSimple ==
    /\ variant = "simple"
    /\ pc = "loop"
    /\ start_time = At(Tuesday, 16, 0)
    /\ end_time = start_time + 3 * MinutesPerDay
    /\ interval_minutes = 2
    /\ current_time = start_time
    /\ appended = << >>
    /\ n_rows = 0
    /\ eq = 0
    /\ line = 0
    /\ tick_times = << >>
    /\ \E u \in UniformDraws :
         temp_drift = [id \in { EQUIPMENT[k].id : k \in DOMAIN EQUIPMENT } |->
                         Uniform(0 - Scale \div 10, Scale \div 10, u)]
    /\ vib_drift = << >>
    /\ raw_value = 0
    /\ eq_rows = 0
    /\ SimpleIdle
    /\ ProdIdle
    /\ QcIdle
    /\ MaintIdle
    /\ InsertIdle
    /\ MainIdle
    /\ ClassIdle

NextSimple ==
    \/ SimpleLoop
    \/ SimpleFor
    \/ SimpleReading
    \/ SimpleSpike

SpecSimple == InitSimple /\ [][NextSimple]_vars

\* the record just appended by the simplified generator, if any
SimpleEmitted == variant = "simple" /\ pc = "for" /\ appended # << >>

\* determine_status with the maxima of the equipment being read
StatusOf(temp, vib) ==
    determine_status(temp, EQUIPMENT[eq].temp_range[2], vib,
                     EQUIPMENT[eq].vib_range[2])

\* C18 as stated: the status of every emitted record is determine_status of
\* the temperature and vibration written in that record (the rounded values).
C18_StatusOfEmittedValues ==
    SimpleEmitted =>
      appended[1].status = StatusOf(appended[1].temperature,
                                    appended[1].vibration)

\* C18 amended: the status of every emitted record is determine_status of the
\* temperature after the spike (if any) and of the vibration as they are before
\* rounding, and the record carries these two values rounded to 1 and 2
\* decimals; the spike adds its jump to the temperature.
C18_StatusOfPostSpikeValues ==
    /\ [](SimpleEmitted =>
            /\ appended[1].status = StatusOf(temperature, vibration)
            /\ appended[1].temperature = Round(temperature, 1)
            /\ appended[1].vibration = Round(vibration, 2))
    /\ [][(variant = "simple" /\ pc = "spike") =>
            temperature' = temperature + spike']_vars

\* a record whose spike changed the classification
C18_Witness ==
    /\ SimpleEmitted
    /\ spike > 0
    /\ StatusOf(temperature - spike, vibration) # appended[1].status

\* ------------------------------------------ the status classifiers, swept
\* the values classified: 85% to 85% + ProbeSteps% of the upper bound of the
\* range, at every hundredth of the bound and one thousandth of a unit above
ProbeSteps == 40
ProbeStep(upper) == upper \div 100
ProbeFirst(upper) == 85 * ProbeStep(upper)
ProbeLast(upper) == (85 + ProbeSteps) * ProbeStep(upper)

\* the equipment profile a classifier reads its range from
ClassConfig ==
    IF variant = "simple" THEN EQUIPMENT[eq]
    ELSE IF variant = "csv" THEN CSV_EQUIPMENT_CONFIG[EQUIPMENT_IDS[eq]]
    ELSE EQUIPMENT_CONFIG[EQUIPMENT_IDS[eq]]

\* humidity_value = random.uniform(45, 65): the range of the humidity
HumidityRange == Range(45, 65)

\* the status the classifier picked in Init gives to value v
ClassifyAt(kind, config, v, other) ==
    CASE kind = "temperature" -> TempStatus(v, config)
      [] kind = "vibration" -> VibStatus(v, config)
      [] kind = "pressure" /\ variant = "db" -> PressureStatus(v, config)
      [] kind = "pressure" /\ variant = "csv" -> CsvPressureStatus(v, config)
      [] kind = "humidity" -> HumidityStatus(v)
      [] kind = "determine_status:temperature" ->
           determine_status(v, config.temp_range[2], other, config.vib_range[2])
      [] kind = "determine_status:vibration" ->
           determine_status(other, config.temp_range[2], v, config.vib_range[2])

\* the next value classified
NextProbes(v, upper) ==
    IF v % ProbeStep(upper) = 0 THEN { v + 1, v + ProbeStep(upper) }
    ELSE { v - 1 + ProbeStep(upper) }

\* the classification of the next, higher value
Classify ==
    /\ pc = "classify"
    /\ probe < ProbeLast(range_max)
    /\ \E v \in NextProbes(probe, range_max) :
         /\ probe' = v
         /\ probe_status' = ClassifyAt(classifier, ClassConfig, v, other_value)
    /\ UNCHANGED << commonVars, sensorVars, prodVars, qcVars, maintVars,
                    insertVars, mainVars, simpleVars, classifier, range_max,
                    other_value >>

\* the classifiers of the three programs and the equipment they are applied to
ClassifierChoices ==
    { << v, k, e >> \in { "db", "csv" } \X { "temperature", "vibration" }
                          \X (1 .. NumEquipment) : TRUE }
    \cup { << v, "pressure", e >> : v \in { "db", "csv" }, e \in { 3, 4, 9 } }
    \cup { << "db", "humidity", NumEquipment >> }
    \cup { << "simple", k, e >> :
             k \in { "determine_status:temperature",
                     "determine_status:vibration" },
             e \in 1 .. Len(EQUIPMENT) }

\* the upper bound of the range of the value that rises
RangeMaxOf(kind, config) ==
    CASE kind \in { "temperature", "determine_status:temperature" } ->
           config.temp_range[2]
      [] kind \in { "vibration", "determine_status:vibration" } ->
           config.vib_range[2]
      [] kind = "pressure" -> config.pressure[2]
      [] kind = "humidity" -> HumidityRange[2]

\* the values the other argument of determine_status is held at: half, 95% and
\* 105% of its maximum
OtherValues(kind, config) ==
    LET other_max == IF kind = "determine_status:temperature"
                     THEN config.vib_range[2]
                     ELSE config.temp_range[2]
    IN  IF kind \in { "determine_status:temperature",
                      "determine_status:vibration" }
        THEN { other_max \div 2, (other_max * 95) \div 100,
               (other_max * 105) \div 100 }
        ELSE { 0 }

InitClassify ==
    /\ pc = "classify"
    /\ \E c \in ClassifierChoices :
         /\ variant = c[1]
         /\ classifier = c[2]
         /\ eq = c[3]
    /\ range_max = RangeMaxOf(classifier, ClassConfig)
    /\ other_value \in OtherValues(classifier, ClassConfig)
    /\ probe = ProbeFirst(range_max)
    /\ probe_status = ClassifyAt(classifier, ClassConfig, probe, other_value)
    /\ start_time = 0
    /\ end_time = 0
    /\ interval_minutes = 0
    /\ current_time = 0
    /\ appended = << >>
    /\ n_rows = 0
    /\ line = 0
    /\ tick_times = << >>
    /\ SensorIdle
    /\ ProdIdle
    /\ QcIdle
    /\ MaintIdle
    /\ InsertIdle
    /\ MainIdle
    /\ SimpleIdle

NextClassify == Classify

SpecClassify == InitClassify /\ [][NextClassify]_vars

\* severity of a status
Severity(status) ==
    CASE status = "normal" -> 0
      [] status = "warning" -> 1
      [] status = "critical" -> 2

\* the step of a sweep that leaves 'normal': probe is the warning threshold
LeavesNormal == probe_status = "normal" /\ probe_status' # "normal"
\* the step of a sweep that enters 'critical': probe is the critical threshold
EntersCritical == probe_status # "critical" /\ probe_status' = "critical"
\* the classifiers of generate_iot_data.py and generate_sample_data.py that
\* read the range of an equipment profile
PerSensor == classifier \in { "temperature", "vibration", "pressure" }
\* the ratio of the critical threshold of a per-sensor classifier to the
\* upper bound of the range, in hundredths
CriticalRatio ==
    CASE classifier = "temperature" -> 110
      [] classifier = "vibration" -> 120
      [] classifier = "pressure" -> 105

\* C19 as stated: in every classifier the status never decreases in severity
\* as the value increases, the critical threshold is above the warning
\* threshold, and the warning threshold is above the upper bound of the range.
C19_ThresholdsAboveRangeMax ==
    [][pc = "classify" =>
         /\ Severity(probe_status') >= Severity(probe_status)
         /\ EntersCritical => probe_status = "warning"
         /\ LeavesNormal => probe > range_max]_vars

\* C19 amended: in every classifier the status never decreases in severity as
\* the value increases from within the range, and the critical threshold is
\* above the warning threshold; the warning threshold of a per-sensor
\* temperature, vibration or pressure classifier is the upper bound of the
\* range itself and its critical threshold 1.1, 1.2 or 1.05 times that bound;
\* the warning threshold of determine_status is 0.9 times the maximum and its
\* critical threshold the maximum itself; the warning threshold of the humidity
\* lies above the upper bound of its range.
C19_ThresholdsMonotonic ==
    [][pc = "classify" =>
         /\ Severity(probe_status') >= Severity(probe_status)
         /\ EntersCritical => probe_status = "warning"
         /\ (LeavesNormal /\ PerSensor) => probe = range_max
         /\ (EntersCritical /\ PerSensor) =>
              probe * 100 = range_max * CriticalRatio
         /\ (LeavesNormal /\ variant = "simple") => probe * 10 = range_max * 9
         /\ (EntersCritical /\ variant = "simple") => probe = range_max
         /\ (LeavesNormal /\ classifier = "humidity") => probe > range_max]_vars

\* a sweep of the pressure classifier or of determine_status that started in
\* 'normal' and ended in 'critical'
C19_Witness ==
    /\ pc = "classify"
    /\ probe = ProbeLast(range_max)
    /\ probe_status = "critical"
    /\ classifier \in { "pressure", "determine_status:temperature" }
    /\ ClassifyAt(classifier, ClassConfig, ProbeFirst(range_max),
                  other_value) = "normal"

\* ------------------------------------------- the four generators, to the end
\* the generator of generate_iot_data.py that was called: the one whose locals
\* are assigned
Called ==
    IF temp_drift # << >> THEN "generate_sensor_data"
    ELSE IF batch_counter # 0 THEN "generate_quality_control_data"
    ELSE IF maint_time # 0 THEN "generate_maintenance_events"
    ELSE "generate_production_metrics"

\* generate_quality_control_data(start, start + 70 minutes): up to two
\* intervals fit in the window
InitQualityShort ==
    /\ variant = "db"
    /\ start_time = At(Monday, 8, 0)
    /\ end_time = start_time + 70
    /\ pc = "loop"
    /\ current_time = start_time
    /\ interval_minutes = 0
    /\ appended = << >>
    /\ n_rows = 0
    /\ eq = 0
    /\ line = 0
    /\ tick_times = << >>
    /\ next_test = start_time
    /\ batch_counter = 1000
    /\ batch_ids = << >>
    /\ SensorIdle
    /\ ProdIdle
    /\ MaintIdle
    /\ InsertIdle
    /\ MainIdle
    /\ SimpleIdle
    /\ ClassIdle

\* a call of one of the four generators of generate_iot_data.py
InitGenerators ==
    /\ variant = "db"
    /\ \/ InitSensor /\ interval_minutes = 60
       \/ InitProduction
       \/ InitQualityShort
       \/ InitQuality /\ end_time - start_time < 30
       \/ InitMaintenance

\* the steps of the generator that was called
NextGenerators ==
    \/ /\ Called = "generate_sensor_data"
       /\ NextSensorDb
    \/ /\ Called = "generate_production_metrics"
       /\ \/ ProdLoop
          \/ ProdForLine
          \/ ProdForEquipment
          \/ ProdEquipment
    \/ /\ Called = "generate_quality_control_data"
       /\ \/ QcLoop
          \/ QcForLine
          \/ QcTest
    \/ /\ Called = "generate_maintenance_events"
       /\ \/ MaintForEquipment
          \/ MaintWhile
          \/ MaintPreventive
          \/ MaintUnscheduled
          \/ MaintForDay
          \/ MaintFault

\* the interpreter runs the next statement of the function that was called
\* for as long as there is one
SpecGenerators ==
    InitGenerators /\ [][NextGenerators]_vars /\ WF_vars(NextGenerators)

\* the least time the cursor of the loop of the generator called advances by
MinAdvance ==
    CASE Called = "generate_sensor_data" -> interval_minutes
      [] Called = "generate_production_metrics" -> interval_minutes
      [] Called = "generate_quality_control_data" -> 30
      [] Called = "generate_maintenance_events" -> 28 * MinutesPerDay

\* the function called has returned or raised
Terminated == pc \in { "done", "raised" }

\* the time left in the window, the cursor included; 0 once the cursor is past
\* end_time
TimeLeft == IF current_time > end_time THEN 0 ELSE end_time - current_time + 1

\* a measure of what is left to run: the equipment left (maintenance), the
\* time left in the window, and the position in the body of the loop, from
\* the outer loop to the inner one
Rank ==
    IF Terminated THEN << 0, 0, 0, 0, 0 >>
    ELSE IF Called = "generate_sensor_data"
    THEN CASE pc = "loop" -> << 0, TimeLeft, NumEquipment + 1, 0, 0 >>
           [] pc = "for" -> << 0, TimeLeft, NumEquipment - eq, 0, 0 >>
           [] pc = "temperature" -> << 0, TimeLeft, NumEquipment - eq, 0, 4 >>
           [] pc = "vibration" -> << 0, TimeLeft, NumEquipment - eq, 0, 3 >>
           [] pc = "pressure" -> << 0, TimeLeft, NumEquipment - eq, 0, 2 >>
           [] pc = "humidity" -> << 0, TimeLeft, NumEquipment - eq, 0, 1 >>
    ELSE IF Called = "generate_production_metrics"
    THEN CASE pc = "loop" -> << 0, TimeLeft, Len(LINES) + 1, 0, 0 >>
           [] pc = "for_line" -> << 0, TimeLeft, Len(LINES) - line, 0, 0 >>
           [] pc = "for_equipment" ->
                << 0, TimeLeft, Len(LINES) - line,
                   Len(LineEquipment(LINES[line])) - eq + 1, 0 >>
           [] pc = "equipment" ->
                << 0, TimeLeft, Len(LINES) - line,
                   Len(LineEquipment(LINES[line])) - eq + 1, 1 >>
    ELSE IF Called = "generate_quality_control_data"
    THEN CASE pc = "loop" -> << 0, TimeLeft, Len(LINES) + 1, 0, 0 >>
           [] pc = "for_line" -> << 0, TimeLeft, Len(LINES) - line, 0, 0 >>
           [] pc = "test" -> << 0, TimeLeft, Len(LINES) - line, 0, 1 >>
    ELSE CASE pc = "for_equipment" -> << NumEquipment - eq, 0, 0, 0, 1 >>
           [] pc = "while" -> << NumEquipment - eq, TimeLeft, 3, 0, 0 >>
           [] pc = "preventive" -> << NumEquipment - eq, TimeLeft, 2, 0, 0 >>
           [] pc = "unscheduled" -> << NumEquipment - eq, TimeLeft, 1, 0, 0 >>
           [] pc = "for_day" ->
                << NumEquipment - eq, TimeLeft, 0, DaysPassed + 30 - day, 1 >>
           [] pc = "fault" ->
                << NumEquipment - eq, TimeLeft, 0, DaysPassed + 30 - day, 0 >>

\* a comes before b in the lexicographic order
LexLess(a, b) ==
    \E k \in DOMAIN b :
      /\ a[k] < b[k]
      /\ \A j \in 1 .. k - 1 : a[j] = b[j]

\* C21: each generator loop terminates, whatever the window and the draws.
\* A function that has not returned or raised always has a next step; every
\* step makes Rank, a tuple of natural numbers, smaller in the lexicographic
\* order, so no run takes infinitely many steps; the cursor of the sensor and
\* production loops advances by the positive interval, that of the
\* quality-control loop by at least 30 minutes unless the loop breaks, that of
\* the maintenance loop of one equipment by at least 28 days, and a loop is
\* left only with its cursor past end_time or on the break of the
\* quality-control loop.
C21_GeneratorsTerminate ==
    /\ [](/\ \A k \in DOMAIN Rank : Rank[k] >= 0
          /\ ~Terminated => ENABLED NextGenerators)
    /\ [][/\ LexLess(Rank', Rank)
          /\ (current_time' # current_time /\ pc # "for_equipment") =>
               /\ MinAdvance > 0
               /\ current_time' >= current_time + MinAdvance
          /\ (pc' = "done" /\ pc \in { "loop", "while" }) =>
               \/ current_time > end_time
               \/ Called = "generate_quality_control_data"
                    /\ current_time + 180 > end_time]_vars

\* C21 witness: the maintenance generator has returned after its cursor moved
\* past end_time for the last equipment
C21_Witness ==
    /\ Called = "generate_maintenance_events"
    /\ pc = "done"
    /\ eq = NumEquipment
    /\ current_time > end_time

\* C23: once main has connected, every path out of it (all four tables
\* written, a batch write that failed, an exception raised by a generator or
\* out of insert_data_batch) goes through conn.close() exactly once: the
\* connection is closed at most once, only in the finally clause and only
\* when open, main has not ended while the connection is open, and an open
\* connection is eventually closed with main ended.
C23_ClosedExactlyOnce ==
    /\ [](/\ closes <= 1
          /\ (conn = "closed") <=> (closes = 1)
          /\ pc = "exited" =>
               \/ outcome = "sys.exit(1)" /\ conn = "none"
               \/ /\ outcome \in { "complete", "return", "error" }
                  /\ conn = "closed"
          /\ conn = "open" => pc # "exited")
    /\ [][closes' # closes =>
            /\ closes' = closes + 1
            /\ pc = "finally"
            /\ conn = "open"
            /\ conn' = "closed"]_vars
    /\ (conn = "open") ~> (pc = "exited" /\ conn = "closed" /\ closes = 1)

\* C23 witness: the rollback of a failed sensor_data batch raised; main went
\* through its except and finally clauses and closed the connection
C23_Witness ==
    /\ pc = "exited"
    /\ outcome = "error"
    /\ generated = << "sensor_data" >>
    /\ success = "unset"
    /\ conn = "closed"
    /\ closes = 1

====
